---- MODULE Spec2Model ----
(***************************************************************************)
(* Model of backend/app/github_app.py: the GitHub App client.  One client  *)
(* object (the lru_cache singleton) is shared by the coroutines of the     *)
(* event loop.  A coroutine runs without interleaving between two          *)
(* suspension points; the suspension points are the HTTP requests and the  *)
(* git subprocesses.  Every action below is the code a coroutine runs      *)
(* from one suspension point to the next.                                  *)
(***************************************************************************)
EXTENDS Integers, Sequences, FiniteSets, TLC

(* ---------------- bounds of the model ---------------- *)
MaxMints == 2
MaxSlugLen == 4

(* ---------------- program constants ---------------- *)
TokenMargin == 60
JwtMargin == 30
JwtValidity == 540
JwtBackdate == 60
RequestTimeout == 15

Procs == {1, 2}
(* The instants at which the clock is read, in seconds since the client   *)
(* was built: a few seconds apart while requests are in flight, and close  *)
(* to an hour later, around the moment a token minted at the start comes   *)
(* within its safety margin.                                               *)
Clock == {0, 5, 3535, 3540}
(* the validity the hosting side gives an installation token *)
TokenTTLs == {3600}
AppId == "app-id"
NoToken == 0
NoJwt == [iat |-> 0, exp |-> 0, iss |-> "none"]
NoUse == [kind |-> "none", token |-> 0, fresh |-> TRUE]
NoResp == [kind |-> "none", token |-> 0, exp |-> 0]
Branches == {"main", "develop"}

(* ---------------- strings ---------------- *)
(* A string is a sequence of chunks; a chunk is an indivisible piece of    *)
(* text ("https://", "/", "acme", ".git", an access token, ...).           *)
Contains(str, chunk) == \E i \in 1..Len(str) : str[i] = chunk

StartsWith(str, chunk) == Len(str) > 0 /\ str[1] = chunk

EndsWith(str, chunk) == Len(str) > 0 /\ str[Len(str)] = chunk

RECURSIVE LStrip(_, _)
LStrip(str, chunk) ==
    IF StartsWith(str, chunk) THEN LStrip(Tail(str), chunk) ELSE str

RECURSIVE RStrip(_, _)
RStrip(str, chunk) ==
    IF EndsWith(str, chunk) THEN RStrip(SubSeq(str, 1, Len(str) - 1), chunk) ELSE str

Strip(str, chunk) == RStrip(LStrip(str, chunk), chunk)

(* str.split(sep): the pieces between the separators, empty ones included *)
RECURSIVE SplitFrom(_, _, _)
SplitFrom(str, sep, cur) ==
    IF str = <<>> THEN <<cur>>
    ELSE IF Head(str) = sep THEN <<cur>> \o SplitFrom(Tail(str), sep, <<>>)
    ELSE SplitFrom(Tail(str), sep, Append(cur, Head(str)))

Split(str, sep) == SplitFrom(str, sep, <<>>)

NonEmpty(pieces) == SelectSeq(pieces, LAMBDA piece : piece # <<>>)

RECURSIVE Join(_, _)
Join(strs, sep) ==
    IF strs = <<>> THEN <<>>
    ELSE IF Len(strs) = 1 THEN strs[1]
    ELSE strs[1] \o sep \o Join(Tail(strs), sep)

(* urlparse(url).path for scheme://netloc/path *)
UrlPath(url) ==
    LET rest == Tail(url)
        slash == {i \in 1..Len(rest) : rest[i] = "/"}
    IN IF slash = {} THEN <<>>
    ELSE LET first == CHOOSE i \in slash : \A j \in slash : i <= j
         IN SubSeq(rest, first, Len(rest))

parse_repo_identifier_KeepsGit(source) ==
    LET trimmed == Strip(source, " ")
        segments ==
            IF StartsWith(trimmed, "http://") \/ StartsWith(trimmed, "https://")
            THEN NonEmpty(Split(Strip(UrlPath(trimmed), "/"), "/"))
            ELSE NonEmpty(Split(trimmed, "/"))
    IN IF Len(segments) < 2 THEN [ok |-> FALSE, owner |-> <<>>, name |-> <<>>]
       ELSE [ok |-> TRUE, owner |-> segments[1], name |-> segments[2]]

parse_repo_identifier_Lenient(source) ==
    LET segments == NonEmpty(Split(Strip(source, " "), "/"))
    IN [ok |-> TRUE,
        owner |-> IF Len(segments) >= 1 THEN segments[1] ELSE <<>>,
        name |-> IF Len(segments) >= 2 THEN segments[2] ELSE <<>>]

(* _parse_repo_identifier: ok = FALSE stands for the raised ValueError *)
parse_repo_identifier(source) ==
    LET trimmed == Strip(source, " ")
        segments ==
            IF StartsWith(trimmed, "http://") \/ StartsWith(trimmed, "https://")
            THEN NonEmpty(Split(Strip(UrlPath(trimmed), "/"), "/"))
            ELSE NonEmpty(Split(trimmed, "/"))
    IN IF trimmed = <<>> THEN [ok |-> FALSE, owner |-> <<>>, name |-> <<>>]
       ELSE IF Len(segments) < 2 THEN [ok |-> FALSE, owner |-> <<>>, name |-> <<>>]
       ELSE [ok |-> TRUE,
             owner |-> segments[1],
             name |-> IF EndsWith(segments[2], ".git")
                      THEN SubSeq(segments[2], 1, Len(segments[2]) - 1)
                      ELSE segments[2]]

SourceRefs ==
    { <<"https://", "github.com", "/", "acme", "/", "widgets", ".git">>,
      <<"acme", "/", "widgets">>,
      <<"widgets">>,
      <<" ">> }

(* ---------------- state ---------------- *)
VARIABLES now, app_jwt, app_jwt_expires_at, installation_token,
          installation_token_expires_at, minted, lastUse, proc, db, txn

vars == <<now, app_jwt, app_jwt_expires_at, installation_token,
          installation_token_expires_at, minted, lastUse, proc, db, txn>>

(* the database the routes work on and the requests they are serving *)
routeVars == <<db, txn>>

clientVars == <<app_jwt, app_jwt_expires_at, installation_token,
                installation_token_expires_at>>

NoRepo ==
    [exists |-> FALSE, is_template |-> FALSE, private |-> FALSE,
     default_branch |-> "none", branches |-> {}]

NoRepoData == [default_branch |-> "none", full_name |-> "none", id |-> "none"]

NoStatus == 0 - 1

NoResult == [token |-> NoToken, exp |-> 0, id |-> "none", sha |-> "none",
             default_branch |-> "none"]

(* a permissions argument: None, or a mapping given as its set of items *)
NoPermissions == [given |-> FALSE, map |-> {}]

NoArgs == [repo_id |-> 0, permissions |-> NoPermissions]

(* the JSON body of a token-mint request; a key that is left out shows as  *)
(* the empty value                                                         *)
NoBody == [repository_ids |-> <<>>, permissions |-> {}]

(* no result of _parse_repo_identifier *)
NoParsed == [ok |-> FALSE, owner |-> <<>>, name |-> <<>>]

(* the Authorization header of a request: its scheme and the kind of       *)
(* credential after it                                                     *)
NoAuth == [scheme |-> "none", kind |-> "none"]

(* what a caller of _request passes: an Authorization header of its own,   *)
(* or none, and the token_is_app flag                                      *)
NoHeaders == [authorization |-> "none", token_is_app |-> FALSE]

(* an expected_status argument: None, or a sequence given as its set *)
NoExpected == [given |-> FALSE, statuses |-> {}]

(* One coroutine: the operation it runs, where it is suspended, the locals *)
(* of the operation, the requests and git commands it has issued so far,   *)
(* the seed repository it created on the hosting side, the status of the   *)
(* last answer it got (HTTP status or exit code) and the first step of the *)
(* invocation that the outside world failed.                               *)
IdleProc ==
    [op |-> "idle", pc |-> "idle", ret |-> "none", token |-> NoToken,
     issued |-> <<>>, outcome |-> "none", msg |-> <<>>, bearer |-> NoJwt, resp |-> NoResp,
     out |-> <<>>, parsed |-> NoParsed,
     expected |-> NoExpected, hdr |-> NoHeaders, auth |-> NoAuth,
     args |-> NoArgs, body |-> NoBody,
     source |-> <<>>, default_branch |-> "none", source_branch |-> "none",
     repo |-> NoRepo, repo_data |-> NoRepoData, sha |-> "none",
     dir |-> "none", tmpdir |-> FALSE, git |-> "none", result |-> NoResult,
     status |-> NoStatus, failed |-> "none"]

(* a nullable timestamp column *)
NoTime == [set |-> FALSE, at |-> 0]

At(t) == [set |-> TRUE, at |-> t]

(* models.Invitation: the columns the candidate routes read or write *)
NoInvitation ==
    [status |-> "none", start_deadline |-> NoTime, complete_deadline |-> NoTime,
     started_at |-> NoTime, submitted_at |-> NoTime, expired_at |-> NoTime]

(* the database before anything is stored: candidate_repos, access_tokens  *)
(* and submissions of the invitation, the row lock a transaction holds on  *)
(* the invitation, and the pending GitHub installation states              *)
NoDb ==
    [invitation |-> NoInvitation, seed |-> "missing", candidate_repos |-> 0,
     access_tokens |-> <<>>, submissions |-> 0, lock |-> 0,
     states |-> {}, state_tokens |-> 0, installations |-> {}]

(* a route handler that is not running: its session holds nothing *)
IdleTxn ==
    [op |-> "idle", pc |-> "idle", link |-> "none", invitation |-> NoInvitation,
     candidate_repo |-> FALSE,
     access_tokens |-> {}, seed |-> "missing", state |-> 0, org |-> "none",
     deleted |-> {}, expires_at |-> 0, code |-> 0]

Init ==
    /\ db = NoDb
    /\ txn = [p \in Procs |-> IdleTxn]
    /\ now = 0
    /\ app_jwt = NoJwt
    /\ app_jwt_expires_at = 0
    /\ installation_token = NoToken
    /\ installation_token_expires_at = 0
    /\ minted = <<>>
    /\ lastUse = NoUse
    /\ proc = [p \in Procs |-> IdleProc]

(* a coroutine waits for the answer to an HTTP request *)
HttpWait ==
    {"request_wait", "mint_sent", "mint_replied", "arch_wait", "ref_wait", "cand_wait", "seed_lookup_wait",
     "seed_create_wait", "seed_read_wait", "seed_rename_wait", "seed_patch_wait",
     "seed_ref_wait"}

RequestInFlight == \E p \in Procs : proc[p].pc \in HttpWait

(* Wall-clock time passes while coroutines are suspended.  A request is    *)
(* answered within the client's timeout; between operations and while git  *)
(* runs any time may pass.                                                 *)
Tick ==
    \E t \in Clock :
        /\ t > now
        /\ RequestInFlight => t - now <= RequestTimeout
        /\ now' = t
        /\ UNCHANGED <<clientVars, minted, lastUse, proc, routeVars>>

(* ---------------- helpers of the operations ---------------- *)
Fail(r, type, msg) == [r EXCEPT !.pc = "done", !.outcome = type, !.msg = msg]

(* the outside world answers with a status; bad names the step if the     *)
(* answer is a failure of that step                                        *)
Observe(r, status, bad, step) ==
    [r EXCEPT !.status = status,
              !.failed = IF bad /\ @ = "none" THEN step ELSE @]

Http2xx(status) == status >= 200 /\ status < 300

(* _build_client: the Authorization header of the client's requests *)
build_client_authorization(kind, token_is_app) ==
    [scheme |-> IF token_is_app THEN "Bearer" ELSE "token", kind |-> kind]

request_authorization_SetDefault(headers, kind, token_is_app) ==
    IF headers.authorization # "none"
    THEN [scheme |-> headers.authorization, kind |-> kind]
    ELSE [scheme |-> IF token_is_app THEN "Bearer" ELSE "token", kind |-> kind]

(* _request: the Authorization header it sets on the caller's headers *)
request_authorization(headers, kind, token_is_app) ==
    [scheme |-> IF token_is_app THEN "Bearer" ELSE "token", kind |-> kind]

(* a request through the client of _build_client(token=token) *)
Send(r, wait, call) ==
    [r EXCEPT !.pc = wait, !.issued = Append(@, call),
              !.auth = build_client_authorization("inst", FALSE)]

(* the record of a credential leaving the process: which one, and whether *)
(* the clock was still before its expiry minus the safety margin           *)
InstUse(t) ==
    [kind |-> "inst", token |-> t, fresh |-> now < minted[t].exp - TokenMargin]

TokenText(t) == ToString(t)

OrgName == <<"org">>

SeedRepoName == <<"afterquery-seed", "-", "slug", "-", "uuid">>

SeedFullName == OrgName \o <<"/">> \o SeedRepoName

SeedFullNames == {SeedFullName, SeedRepoName}

CloneUrl(t, path) ==
    <<"https://", "x-access-token:", TokenText(t), "@", "github.com", "/">> \o path \o <<".git">>

(* ---------------- credential signer ---------------- *)
JwtFresh_Never == FALSE

(* _ensure_app_jwt: the cached assertion is still good *)
JwtFresh == app_jwt # NoJwt /\ now < app_jwt_expires_at - JwtMargin

SignJwt_NoBackdate(t) == [iat |-> t, exp |-> t + JwtValidity, iss |-> AppId]

(* _ensure_app_jwt: the payload signed at time t *)
SignJwt(t) == [iat |-> t - JwtBackdate, exp |-> t + JwtValidity, iss |-> AppId]

(* _ensure_app_jwt *)
ensure_app_jwt ==
    IF JwtFresh
    THEN UNCHANGED <<app_jwt, app_jwt_expires_at>>
    ELSE /\ app_jwt' = SignJwt(now)
         /\ app_jwt_expires_at' = now + JwtValidity

(* ---------------- installation token cache ---------------- *)
TokenFresh_Inverted ==
    /\ installation_token # NoToken
    /\ now > installation_token_expires_at - TokenMargin

TokenFresh ==
    /\ installation_token # NoToken
    /\ now < installation_token_expires_at - TokenMargin

(* the arguments create_repository_access_token is called with *)
RepoIds == {7}

PermissionArgs ==
    {NoPermissions, [given |-> TRUE, map |-> {}],
     [given |-> TRUE, map |-> {<<"contents", "read">>}]}

DefaultPermissions == {<<"contents", "write">>, <<"metadata", "read">>}

ScopedPermissions_NoneOnly(permissions) ==
    IF permissions.given THEN permissions.map ELSE DefaultPermissions

(* create_repository_access_token: permissions or {contents: write, ...} *)
ScopedPermissions(permissions) ==
    IF permissions.given /\ permissions.map # {} THEN permissions.map ELSE DefaultPermissions

(* _create_installation_access_token: the payload keeps each argument that *)
(* is not empty                                                            *)
MintPayload(repository_ids, permissions) ==
    [repository_ids |-> IF repository_ids # <<>> THEN repository_ids ELSE <<>>,
     permissions |-> IF permissions # {} THEN permissions ELSE {}]

(* the payload of the mint that operation r makes *)
MintBody(r) ==
    IF r.op = "create_repository_access_token"
    THEN MintPayload(<<r.args.repo_id>>, ScopedPermissions(r.args.permissions))
    ELSE MintPayload(<<>>, {})

(* _create_installation_access_token up to its request: sign, then POST *)
StartMint(p, r) ==
    /\ ensure_app_jwt
    /\ lastUse' = [kind |-> "jwt", token |-> NoToken,
                   fresh |-> now < app_jwt_expires_at' - JwtMargin]
    /\ proc' = [proc EXCEPT ![p] =
          [Send(r, "mint_sent", "POST /app/installations/access_tokens")
              EXCEPT !.bearer = app_jwt', !.body = MintBody(r),
                     !.auth = request_authorization(NoHeaders, "jwt", TRUE)]]

(* archive_repository: the JSON body of its PATCH *)
ArchivePayload == [archived |-> TRUE, default_branch |-> "main"]

(* the statement that follows `token = await self._get_cached_installation_token()` *)
SendAfterToken(r, t) ==
    LET rt == [r EXCEPT !.token = t]
    IN CASE r.ret = "seed_lookup" -> Send(rt, "seed_lookup_wait", "GET /repos/source")
         [] r.ret = "seed_read" -> Send(rt, "seed_read_wait", "GET /repos/seed")
         [] r.ret = "ref" -> Send(rt, "ref_wait", "GET /git/ref")
         [] r.ret = "candidate" ->
                IF Len(Split(r.source, "/")) < 2
                THEN Fail(rt, "ValueError", <<"not enough values to unpack">>)
                ELSE Send(rt, "cand_wait", "POST /generate")
         [] r.ret = "archive" ->
                [Send(rt, "arch_wait", "PATCH /repos/archive") EXCEPT !.body = ArchivePayload]

UseAfterToken(r, t) ==
    IF SendAfterToken(r, t).pc = "done" THEN lastUse ELSE InstUse(t)

(* _get_cached_installation_token, called by coroutine p whose locals are r *)
AcquireToken(p, r) ==
    IF TokenFresh
    THEN /\ proc' = [proc EXCEPT ![p] = SendAfterToken(r, installation_token)]
         /\ lastUse' = UseAfterToken(r, installation_token)
         /\ UNCHANGED clientVars
    ELSE /\ StartMint(p, r)
         /\ UNCHANGED <<installation_token, installation_token_expires_at>>

IsScoped(r) == r.op = "create_repository_access_token"

(* the hosting side answers the installation-token request *)
BackendMint(p) ==
    /\ proc[p].pc = "mint_sent"
    /\ \/ \E ttl \in TokenTTLs :
            /\ Len(minted) < MaxMints
            /\ minted' = Append(minted, [exp |-> now + ttl, scoped |-> IsScoped(proc[p])])
            /\ proc' = [proc EXCEPT ![p].pc = "mint_replied",
                                    ![p].resp = [kind |-> "ok", token |-> Len(minted) + 1,
                                                 exp |-> now + ttl]]
       \/ \E k \in {"http_error", "no_token", "no_expiry", "bad_expiry"} :
            /\ proc' = [proc EXCEPT ![p].pc = "mint_replied",
                                    ![p].resp = [kind |-> k, token |-> NoToken, exp |-> 0],
                                    ![p].failed = "mint"]
            /\ UNCHANGED minted
    /\ UNCHANGED <<routeVars, now, clientVars, lastUse>>

CacheStore_ExpiryFirst(token, expires_at) ==
    /\ installation_token' = installation_token
    /\ installation_token_expires_at' = expires_at

CacheStore_TokenOnly(token, expires_at) ==
    /\ installation_token' = token
    /\ UNCHANGED installation_token_expires_at

(* _get_cached_installation_token: the two writes after the mint returns *)
CacheStore(token, expires_at) ==
    /\ installation_token' = token
    /\ installation_token_expires_at' = expires_at

(* the error _create_installation_access_token raises for a response *)
MintError(resp) ==
    CASE resp.kind = "http_error" -> "HTTPStatusError"
      [] resp.kind = "no_token" -> "GitHubAppError"
      [] resp.kind = "no_expiry" -> "GitHubAppError"
      [] resp.kind = "bad_expiry" -> "ValueError"
      [] OTHER -> "none"

ScopedReturn_Cached(p, r0, resp) ==
    /\ proc' = [proc EXCEPT ![p] =
          [r0 EXCEPT !.pc = "done", !.outcome = "ok",
                     !.result = [NoResult EXCEPT !.token = resp.token, !.exp = resp.exp]]]
    /\ CacheStore(resp.token, resp.exp)
    /\ UNCHANGED <<app_jwt, app_jwt_expires_at, lastUse>>

(* create_repository_access_token hands the minted pair to its caller and  *)
(* writes nothing else                                                     *)
ScopedReturn(p, r0, resp) ==
    /\ proc' = [proc EXCEPT ![p] =
          [r0 EXCEPT !.pc = "done", !.outcome = "ok",
                     !.result = [NoResult EXCEPT !.token = resp.token, !.exp = resp.exp]]]
    /\ UNCHANGED <<clientVars, lastUse>>

DefaultReturn_CacheReadFirst(p, r0, resp) ==
    /\ CacheStore(resp.token, resp.exp)
    /\ proc' = [proc EXCEPT ![p] =
          IF installation_token = NoToken
          THEN [r0 EXCEPT !.pc = IF r0.ret = "archive" THEN "arch_wait" ELSE "ref_wait"]
          ELSE SendAfterToken(r0, installation_token)]
    /\ UNCHANGED <<app_jwt, app_jwt_expires_at, lastUse>>

(* _get_cached_installation_token after the mint returns: the pair is      *)
(* written to the cache and the minted token goes to the caller, which     *)
(* carries on with it                                                      *)
DefaultReturn(p, r0, resp) ==
    /\ CacheStore(resp.token, resp.exp)
    /\ proc' = [proc EXCEPT ![p] = SendAfterToken(r0, resp.token)]
    /\ lastUse' = UseAfterToken(r0, resp.token)
    /\ UNCHANGED <<app_jwt, app_jwt_expires_at>>

(* the response reaches the coroutine: rest of                              *)
(* _create_installation_access_token, then the caller's continuation       *)
MintResponse(p) ==
    LET r == proc[p]
        resp == r.resp
        r0 == [r EXCEPT !.resp = NoResp, !.bearer = NoJwt, !.body = NoBody, !.args = NoArgs]
    IN /\ r.pc = "mint_replied"
       /\ IF resp.kind # "ok"
          THEN /\ proc' = [proc EXCEPT ![p] = Fail(r0, MintError(resp), <<"installation token">>)]
               /\ UNCHANGED <<clientVars, lastUse>>
          ELSE IF IsScoped(r)
          THEN ScopedReturn(p, r0, resp)
          ELSE DefaultReturn(p, r0, resp)
       /\ UNCHANGED <<routeVars, now, minted>>

(* ---------------- workflow operations ---------------- *)
(* create_repository_access_token *)
BeginAccessToken(p) ==
    /\ proc[p].pc = "idle"
    /\ \E repo_id \in RepoIds, permissions \in PermissionArgs :
          StartMint(p, [IdleProc EXCEPT !.op = "create_repository_access_token",
                                        !.args = [repo_id |-> repo_id,
                                                  permissions |-> permissions]])
    /\ UNCHANGED <<routeVars, now, minted, installation_token, installation_token_expires_at>>

(* archive_repository *)
BeginArchive(p) ==
    /\ proc[p].pc = "idle"
    /\ AcquireToken(p, [IdleProc EXCEPT !.op = "archive_repository", !.ret = "archive"])
    /\ UNCHANGED <<routeVars, now, minted>>

ArchiveError_RaiseForStatus(status) == IF ~Http2xx(status) THEN "HTTPStatusError" ELSE "none"

(* archive_repository awaits the PATCH and does not look at the response *)
ArchiveError(status) == "none"

ArchiveResponse(p) ==
    /\ proc[p].pc = "arch_wait"
    /\ \E status \in {200, 403} :
          LET r == Observe(proc[p], status, ~Http2xx(status), "archive")
          IN proc' = [proc EXCEPT ![p] =
                IF ArchiveError(status) = "none"
                THEN [r EXCEPT !.pc = "done", !.outcome = "ok"]
                ELSE Fail(r, ArchiveError(status), <<"raise_for_status">>)]
    /\ UNCHANGED <<routeVars, now, clientVars, minted, lastUse>>

(* refresh_branch_sha *)
BeginRefresh(p) ==
    /\ proc[p].pc = "idle"
    /\ AcquireToken(p, [IdleProc EXCEPT !.op = "refresh_branch_sha", !.ret = "ref"])
    /\ UNCHANGED <<routeVars, now, minted>>

RefreshResponse(p) ==
    /\ proc[p].pc = "ref_wait"
    /\ \E body \in {"sha", "no_sha", "not_json"} :
          LET r == Observe(proc[p], IF body = "sha" THEN 200 ELSE 404, body # "sha", "sha")
          IN proc' = [proc EXCEPT ![p] =
                CASE body = "not_json" -> Fail(r, "JSONDecodeError", <<"body">>)
                  [] body = "no_sha" -> Fail(r, "GitHubAppError", <<"Unable to fetch branch head SHA">>)
                  [] body = "sha" -> [r EXCEPT !.pc = "done", !.outcome = "ok", !.sha = "sha",
                                               !.result = [NoResult EXCEPT !.sha = "sha"]]]
    /\ UNCHANGED <<routeVars, now, clientVars, minted, lastUse>>

(* the checks of full_name and id that end ensure_seed_repository and      *)
(* create_candidate_repository                                             *)
Describe(r, data, branch, sha) ==
    IF data.full_name # "str"
    THEN Fail(r, "GitHubAppError", <<"GitHub did not return the repository name">>)
    ELSE IF data.id = "badstr"
    THEN Fail(r, "ValueError", <<"invalid literal for int()">>)
    ELSE IF data.id \notin {"int", "numstr"}
    THEN Fail(r, "GitHubAppError", <<"GitHub did not return the repository id">>)
    ELSE [r EXCEPT !.pc = "done", !.outcome = "ok",
                   !.result = [NoResult EXCEPT !.id = "int", !.sha = sha,
                                               !.default_branch = branch]]

RepoDatas ==
    [default_branch : Branches \cup {"none"}, full_name : {"str"}, id : {"int", "numstr", "badstr"}]
    \cup {NoRepoData}

(* create_candidate_repository *)
BeginCandidate(p) ==
    /\ proc[p].pc = "idle"
    /\ \E name \in SeedFullNames :
          AcquireToken(p, [IdleProc EXCEPT !.op = "create_candidate_repository",
                                           !.ret = "candidate", !.source = name,
                                           !.default_branch = "main"])
    /\ UNCHANGED <<routeVars, now, minted>>

CandidateResponse(p) ==
    LET r == proc[p]
    IN /\ r.pc = "cand_wait"
       /\ \E status \in {201, 422}, data \in RepoDatas :
             LET r1 == Observe([r EXCEPT !.repo_data = data], status,
                               ~Http2xx(status) \/ data.full_name # "str"
                                   \/ data.id \notin {"int", "numstr"}, "generate")
             IN proc' = [proc EXCEPT ![p] =
                   IF status \notin {201, 202}
                   THEN Fail(r1, "GitHubAppError", <<"Unable to generate candidate repository">>)
                   ELSE Describe(r1, data,
                                 IF data.default_branch = "none" THEN r.default_branch
                                 ELSE data.default_branch, "none")]
       /\ UNCHANGED <<routeVars, now, clientVars, minted, lastUse>>

(* ---------------- git mirror executor ---------------- *)
(* repo_dir = f"{temp_dir}/repo" *)
RepoDir(r) == <<r.dir, "/repo">>

(* the cwd argument _clone_and_push gives _run_git: none for the clone *)
GitCwd(r) == IF r.git = "clone" THEN <<>> ELSE RepoDir(r)

SourcePath(r) ==
    LET parsed == parse_repo_identifier(r.source)
    IN parsed.owner \o <<"/">> \o parsed.name

(* the argument list _clone_and_push passes to _run_git for each command *)
GitArgs(r) ==
    CASE r.git = "clone" ->
            << <<"clone">>, <<"--origin">>, <<"upstream">>, <<"--branch">>,
               <<r.source_branch>>, CloneUrl(r.token, SourcePath(r)), RepoDir(r) >>
      [] r.git = "remote" ->
            << <<"remote">>, <<"add">>, <<"origin">>, CloneUrl(r.token, SeedFullName) >>
      [] r.git = "checkout" -> << <<"checkout">>, <<r.source_branch>> >>
      [] r.git = "branch" -> << <<"branch">>, <<"-M">>, <<r.default_branch>> >>
      [] r.git = "push" ->
            << <<"push">>, <<"--set-upstream">>, <<"origin">>, <<r.default_branch>> >>

(* the remote a command talks to: git may name it in what it prints *)
GitRemoteUrls(r) ==
    CASE r.git = "clone" -> {CloneUrl(r.token, SourcePath(r))}
      [] r.git = "push" -> {CloneUrl(r.token, SeedFullName)}
      [] OTHER -> {}

(* what the subprocess may write to standard error when it fails *)
GitStderr(r) ==
    {<<>>, <<"fatal: ", "error", " ">>}
    \cup {<<"fatal: unable to access '">> \o url \o <<"'">> : url \in GitRemoteUrls(r)}

(* _run_git: sanitized_args *)
sanitized_args(args) ==
    [i \in 1..Len(args) |->
        IF Contains(args[i], "x-access-token:") THEN <<"***">> ELSE args[i]]

(* _run_git: the text of the GitHubAppError raised on a non-zero exit *)
git_error_message(args, stderr) ==
    <<"Git command failed (">> \o Join(sanitized_args(args), <<" ">>) \o <<"): ">>
        \o Strip(stderr, " ")

NextGit_AlwaysRenames(r) ==
    CASE r.git = "clone" -> "remote"
      [] r.git = "remote" -> "checkout"
      [] r.git = "checkout" -> "branch"
      [] r.git = "branch" -> "push"
      [] OTHER -> "none"

NextGit_RepeatsRemote(r) ==
    CASE r.git = "clone" -> "remote"
      [] r.git = "remote" ->
            IF Len(r.issued) > 0 /\ Cardinality({i \in 1..Len(r.issued) :
                                                   r.issued[i] = "git remote"}) < 2
            THEN "remote"
            ELSE IF r.default_branch # r.source_branch THEN "checkout" ELSE "push"
      [] r.git = "checkout" -> "branch"
      [] r.git = "branch" -> "push"
      [] OTHER -> "none"

(* the command that follows a successful one in _clone_and_push *)
NextGit(r) ==
    CASE r.git = "clone" -> "remote"
      [] r.git = "remote" ->
            IF r.default_branch # r.source_branch THEN "checkout" ELSE "push"
      [] r.git = "checkout" -> "branch"
      [] r.git = "branch" -> "push"
      [] OTHER -> "none"

RunGit(r, cmd) == [r EXCEPT !.git = cmd, !.pc = "git_wait", !.issued = Append(@, "git " \o cmd)]

(* the names tempfile.mkdtemp can give to a new directory *)
TempNames == {"/tmp/afterquery-seed-a", "/tmp/afterquery-seed-b"}

(* the working directories that exist, over the records pr of the coroutines *)
ExistingDirs(pr) == {pr[q].dir : q \in {x \in Procs : pr[x].tmpdir}}

mkdtemp_Fixed == "/tmp/afterquery-seed-a"

(* tempfile.mkdtemp: creates a directory under a name no existing one has *)
mkdtemp == CHOOSE name \in TempNames : name \notin ExistingDirs(proc)

rmtree_Skip(pr, name) == pr

(* shutil.rmtree(temp_dir, ignore_errors=True) of the finally clause: the   *)
(* directory of that name is gone, whoever created it                       *)
rmtree(pr, name) ==
    [q \in Procs |-> IF pr[q].dir = name THEN [pr[q] EXCEPT !.tmpdir = FALSE] ELSE pr[q]]

(* ---------------- ensure_seed_repository ---------------- *)
BeginEnsureSeed(p) ==
    /\ proc[p].pc = "idle"
    /\ \E source \in SourceRefs, default_branch \in Branches :
          LET r == [IdleProc EXCEPT !.op = "ensure_seed_repository",
                                    !.source = source, !.default_branch = default_branch,
                                    !.failed = IF parse_repo_identifier(source).ok
                                               THEN "none" ELSE "reference"]
          IN IF ~parse_repo_identifier(source).ok
             THEN /\ proc' = [proc EXCEPT ![p] =
                        Fail(r, "ValueError", <<"GitHub repository reference must include owner and name">>)]
                  /\ UNCHANGED <<clientVars, lastUse>>
             ELSE AcquireToken(p, [r EXCEPT !.ret = "seed_lookup"])
    /\ UNCHANGED <<routeVars, now, minted>>

LookupError_No404(status) == IF ~Http2xx(status) THEN "HTTPStatusError" ELSE "none"

(* the error the source lookup raises for a status: the 404 check, then   *)
(* raise_for_status                                                        *)
LookupError(status) ==
    IF status = 404 THEN "GitHubAppError"
    ELSE IF ~Http2xx(status) THEN "HTTPStatusError"
    ELSE "none"

(* answer to GET /repos/{owner}/{name}, then POST /orgs/{org}/repos *)
SeedLookupResponse(p) ==
    LET r0 == proc[p]
    IN /\ r0.pc = "seed_lookup_wait"
       /\ \E status \in {200, 404, 500}, branch \in Branches \cup {"none"} :
             LET r == Observe(r0, status, ~Http2xx(status), "lookup")
             IN
             IF LookupError(status) = "GitHubAppError"
             THEN /\ proc' = [proc EXCEPT ![p] =
                        Fail(r, "GitHubAppError", <<"Source repository not found or inaccessible">>)]
                  /\ UNCHANGED lastUse
             ELSE IF LookupError(status) # "none"
             THEN /\ proc' = [proc EXCEPT ![p] = Fail(r, LookupError(status), <<"raise_for_status">>)]
                  /\ UNCHANGED lastUse
             ELSE /\ proc' = [proc EXCEPT ![p] =
                        Send([r EXCEPT !.source_branch = IF branch = "none" THEN "main" ELSE branch],
                             "seed_create_wait", "POST /orgs/repos")]
                  /\ lastUse' = InstUse(r.token)
       /\ UNCHANGED <<routeVars, now, clientVars, minted>>

CreateOk_Any(status) == TRUE

(* the create answer that lets ensure_seed_repository go on *)
CreateOk(status) == status \in {201, 202}

(* answer to the create call; on success the mirror starts with git clone *)
SeedCreateResponse(p) ==
    LET r0 == proc[p]
    IN /\ r0.pc = "seed_create_wait"
       /\ \E status \in {201, 422} :
             LET r == Observe(r0, status, ~Http2xx(status), "create")
             IN
             IF ~CreateOk(status)
             THEN /\ proc' = [proc EXCEPT ![p] =
                        Fail(r, "GitHubAppError", <<"Failed to create seed repository">>)]
                  /\ UNCHANGED lastUse
             ELSE /\ proc' = [proc EXCEPT ![p] =
                        RunGit([r EXCEPT !.repo = [NoRepo EXCEPT !.exists = TRUE, !.private = TRUE,
                                                                 !.default_branch = "main"],
                                         !.dir = mkdtemp, !.tmpdir = TRUE], "clone")]
                  /\ lastUse' = InstUse(r.token)
       /\ UNCHANGED <<routeVars, now, clientVars, minted>>

(* a git command exits non-zero: _run_git raises, the finally removes the  *)
(* working directory                                                       *)
GitFail(p) ==
    LET r == Observe(proc[p], 128, TRUE, "git")
    IN /\ r.pc = "git_wait"
       /\ \E stderr \in GitStderr(r) :
             proc' = rmtree([proc EXCEPT ![p] =
                                Fail(r, "GitHubAppError", git_error_message(GitArgs(r), stderr))],
                            r.dir)
       /\ UNCHANGED <<routeVars, now, clientVars, minted, lastUse>>

(* a git command other than the push exits with 0: the next one runs *)
GitNext(p) ==
    LET r == Observe(proc[p], 0, FALSE, "git")
    IN /\ r.pc = "git_wait"
       /\ r.git # "push"
       /\ proc' = [proc EXCEPT ![p] = RunGit(r, NextGit(r))]
       /\ lastUse' = IF NextGit(r) = "push" THEN InstUse(r.token) ELSE lastUse
       /\ UNCHANGED <<routeVars, now, clientVars, minted>>

(* the push exits with 0: the finally removes the working directory and    *)
(* _clone_and_push returns.  Called on its own it returns to its caller;   *)
(* inside ensure_seed_repository the branch is on the hosting side, the    *)
(* token is asked for again and the seed is read.                          *)
GitPushed(p) ==
    LET r == Observe(proc[p], 0, FALSE, "git")
    IN /\ r.pc = "git_wait"
       /\ r.git = "push"
       /\ IF r.op = "_clone_and_push"
          THEN /\ proc' = rmtree([proc EXCEPT ![p] = [r EXCEPT !.pc = "done", !.outcome = "ok",
                                                               !.git = "none"]], r.dir)
               /\ UNCHANGED <<clientVars, lastUse>>
          ELSE \E d \in {r.default_branch, r.repo.default_branch} :
                 AcquireToken(p, [rmtree([proc EXCEPT ![p] = r], r.dir)[p]
                                     EXCEPT !.repo.branches = @ \cup {r.default_branch},
                                            !.repo.default_branch = d,
                                            !.git = "none", !.ret = "seed_read"])
       /\ UNCHANGED <<routeVars, now, minted>>

current_default_Requested(data, default_branch) == default_branch

(* ensure_seed_repository: repo_data.get("default_branch") or default_branch *)
current_default(data, default_branch) ==
    IF data.default_branch = "none" THEN default_branch ELSE data.default_branch

(* answer to GET /repos/{seed}; then the rename call or the PATCH *)
SeedReadResponse(p) ==
    LET r == proc[p]
    IN /\ r.pc = "seed_read_wait"
       /\ \/ /\ proc' = [proc EXCEPT ![p] =
                    Fail(Observe(r, 500, TRUE, "read"), "JSONDecodeError", <<"body">>)]
             /\ UNCHANGED lastUse
          \/ \E data \in RepoDatas :
               LET r1 == Observe([r EXCEPT !.repo_data = data],
                                 IF data = NoRepoData THEN 404 ELSE 200,
                                 data = NoRepoData, "read")
               IN /\ proc' = [proc EXCEPT ![p] =
                       IF current_default(data, r.default_branch) # r.default_branch
                       THEN Send(r1, "seed_rename_wait", "POST /branches/rename")
                       ELSE Send(r1, "seed_patch_wait", "PATCH /repos/seed")]
                  /\ lastUse' = InstUse(r.token)
       /\ UNCHANGED <<routeVars, now, clientVars, minted>>

RenameOk_Any(status) == TRUE

RenameOk(status) == status \in {200, 201}

(* answer to the rename call; then the PATCH *)
SeedRenameResponse(p) ==
    LET r0 == proc[p]
    IN /\ r0.pc = "seed_rename_wait"
       /\ \E status \in {200, 404} :
             LET r == Observe(r0, status, ~Http2xx(status), "rename")
             IN
             IF ~RenameOk(status)
             THEN /\ proc' = [proc EXCEPT ![p] =
                        Fail(r, "GitHubAppError", <<"Unable to rename default branch to main">>)]
                  /\ UNCHANGED lastUse
             ELSE /\ proc' = [proc EXCEPT ![p] =
                        Send([r EXCEPT !.repo.default_branch = r.default_branch,
                                       !.repo.branches = {r.default_branch}],
                             "seed_patch_wait", "PATCH /repos/seed")]
                  /\ lastUse' = InstUse(r.token)
       /\ UNCHANGED <<routeVars, now, clientVars, minted>>

(* answer to the PATCH, which the code does not look at; then the ref read *)
SeedPatchResponse(p) ==
    LET r0 == proc[p]
    IN /\ r0.pc = "seed_patch_wait"
       /\ \E status \in {200, 422} :
             LET r == Observe(r0, status, ~Http2xx(status), "patch")
             IN
             proc' = [proc EXCEPT ![p] =
                 Send(IF status = 200
                      THEN [r EXCEPT !.repo.is_template = TRUE, !.repo.private = TRUE,
                                     !.repo.default_branch = r.default_branch]
                      ELSE r,
                      "seed_ref_wait", "GET /git/ref")]
       /\ lastUse' = InstUse(r0.token)
       /\ UNCHANGED <<routeVars, now, clientVars, minted>>

SeedFinish_NoShaCheck(r, sha) ==
    Describe([r EXCEPT !.sha = sha], r.repo_data, r.default_branch, sha)

(* the end of ensure_seed_repository: the SHA check, then the descriptor *)
SeedFinish(r, sha) ==
    IF sha # "sha"
    THEN Fail(r, "GitHubAppError", <<"Unable to determine seed main branch SHA">>)
    ELSE Describe([r EXCEPT !.sha = sha], r.repo_data, r.default_branch, sha)

(* answer to GET /repos/{seed}/git/ref/heads/{branch}; then the checks of  *)
(* the repository data read before                                         *)
SeedRefResponse(p) ==
    LET r0 == proc[p]
    IN /\ r0.pc = "seed_ref_wait"
       /\ \E body \in {"sha", "no_sha", "not_json"} :
             LET r == Observe(r0, IF body = "sha" THEN 200 ELSE 404, body # "sha", "sha")
             IN proc' = [proc EXCEPT ![p] =
                   IF body = "not_json" THEN Fail(r, "JSONDecodeError", <<"body">>)
                   ELSE SeedFinish(r, IF body = "sha" THEN "sha" ELSE "none")]
       /\ UNCHANGED <<routeVars, now, clientVars, minted, lastUse>>

(* ---------------- private key of the settings ---------------- *)
(* Chunks of a key text: the PEM header marker, a newline, a backslash     *)
(* followed by n, key material, a backslash on its own, and the marker     *)
(* with its first hyphen written as the escape sequence \x2d.              *)
PemMarker == "-----BEGIN"

PemKey == <<PemMarker, "\n", "material">>

(* str.replace(old, new) for chunks *)
Replace(str, old, new) == [i \in 1..Len(str) |-> IF str[i] = old THEN new ELSE str[i]]

(* base64.b64decode(key).decode("utf-8"): ok = FALSE stands for the        *)
(* exception of either call.  The texts that are base64 are single chunks. *)
b64decode_utf8(key) ==
    CASE key = <<"base64(pem)">> -> [ok |-> TRUE, text |-> PemKey]
      [] key = <<"base64(text)">> -> [ok |-> TRUE, text |-> <<"text">>]
      [] key = <<"base64(bytes)">> -> [ok |-> FALSE, text |-> <<>>]
      [] OTHER -> [ok |-> FALSE, text |-> <<>>]

(* key.encode("utf-8").decode("unicode_escape"): escape sequences become   *)
(* the characters they stand for; a backslash with nothing after it        *)
(* raises UnicodeDecodeError                                               *)
unicode_escape(key) ==
    IF Contains(key, "\\")
    THEN [error |-> "UnicodeDecodeError", text |-> <<>>]
    ELSE [error |-> "none",
          text |-> Replace(Replace(key, "\\x2d----BEGIN", PemMarker), "\\n", "\n")]

(* GitHubAppSettings.normalized_private_key *)
normalized_private_key(private_key) ==
    LET stripped == Strip(private_key, " ")
        unescaped == IF Contains(stripped, "\\n") THEN Replace(stripped, "\\n", "\n")
                     ELSE stripped
        decoded == b64decode_utf8(unescaped)
        key == IF ~Contains(unescaped, PemMarker) /\ decoded.ok
                    /\ Contains(decoded.text, PemMarker)
               THEN decoded.text ELSE unescaped
    IN IF ~Contains(key, PemMarker) THEN unicode_escape(key)
       ELSE [error |-> "none", text |-> key]

(* the values GITHUB_APP_PRIVATE_KEY may hold *)
PrivateKeys ==
    { PemKey,
      <<" ", PemMarker, "\n", "material", " ">>,
      <<PemMarker, "\\n", "material">>,
      <<"base64(pem)">>,
      <<"base64(text)">>,
      <<"base64(bytes)">>,
      <<"\\x2d----BEGIN", "\n", "material">>,
      <<"material">>,
      <<"material", "\\">>,
      <<>> }

(* the settings object is asked for the key, as GitHubAppClient.__init__   *)
(* does                                                                    *)
NormalizeKey(p) ==
    /\ proc[p].pc = "idle"
    /\ \E private_key \in PrivateKeys :
          LET r == [IdleProc EXCEPT !.op = "normalized_private_key", !.source = private_key]
              res == normalized_private_key(private_key)
          IN proc' = [proc EXCEPT ![p] =
                IF res.error = "none"
                THEN [r EXCEPT !.pc = "done", !.outcome = "ok", !.out = res.text]
                ELSE Fail(r, res.error, <<"unicode_escape">>)]
    /\ UNCHANGED <<routeVars, now, clientVars, minted, lastUse>>

(* ---------------- repository references and slugs ---------------- *)
(* references _parse_repo_identifier may be given *)
RefInputs ==
    SourceRefs \cup
    { <<"https://", "github.com", "/", "acme", "/", "widgets">>,
      <<"http://", "github.com", "/", "acme", "/", "widgets", ".git", "/">>,
      <<" ", "acme", "/", "widgets", ".git", " ">>,
      <<"https://", "github.com", "/", "acme">>,
      <<"https://", "github.com">>,
      <<"/", "/">>,
      <<>> }

(* _parse_repo_identifier called on its own *)
ParseRef(p) ==
    /\ proc[p].pc = "idle"
    /\ \E source \in RefInputs :
          LET r == [IdleProc EXCEPT !.op = "_parse_repo_identifier", !.source = source]
              res == parse_repo_identifier(source)
          IN proc' = [proc EXCEPT ![p] =
                IF res.ok THEN [r EXCEPT !.pc = "done", !.outcome = "ok", !.parsed = res]
                ELSE Fail(r, "ValueError", <<"repository reference">>)]
    /\ UNCHANGED <<routeVars, now, clientVars, minted, lastUse>>

(* The characters of a value given to _slugify, one chunk each: a lower-   *)
(* and an upper-case letter, a digit, a hyphen and a blank.                *)
SlugChars == {"a", "B", "7", "-", " "}

AlphaNumeric == {"a", "b", "B", "7"}

(* str.lower() of one character *)
Lower(c) == IF c = "B" THEN "b" ELSE c

(* re.sub(r"[^a-zA-Z0-9]+", "-", value): inrun says that the previous     *)
(* character already belongs to the run being replaced                     *)
RECURSIVE SubRuns(_, _)
SubRuns(value, inrun) ==
    IF value = <<>> THEN <<>>
    ELSE IF Head(value) \in AlphaNumeric THEN <<Head(value)>> \o SubRuns(Tail(value), FALSE)
    ELSE IF inrun THEN SubRuns(Tail(value), TRUE)
    ELSE <<"-">> \o SubRuns(Tail(value), TRUE)

DefaultSlug == <<"r", "e", "p", "o">>

slugify_NoStrip(value) ==
    LET normalized == [i \in 1..Len(SubRuns(value, FALSE)) |-> Lower(SubRuns(value, FALSE)[i])]
    IN IF normalized = <<>> THEN DefaultSlug ELSE normalized

(* _slugify *)
slugify(value) ==
    LET stripped == Strip(SubRuns(value, FALSE), "-")
        normalized == [i \in 1..Len(stripped) |-> Lower(stripped[i])]
    IN IF normalized = <<>> THEN DefaultSlug ELSE normalized

(* the values of up to MaxSlugLen characters *)
SlugInputs == UNION {[1..n -> SlugChars] : n \in 0..MaxSlugLen}

(* _slugify called on its own *)
Slugify(p) ==
    /\ proc[p].pc = "idle"
    /\ \E value \in SlugInputs :
          proc' = [proc EXCEPT ![p] =
              [IdleProc EXCEPT !.op = "_slugify", !.source = value, !.pc = "done",
                               !.outcome = "ok", !.out = slugify(value)]]
    /\ UNCHANGED <<routeVars, now, clientVars, minted, lastUse>>

(* ---------------- HTTP gateway ---------------- *)
(* the expected_status arguments and the statuses of the answers *)
ExpectedArgs == {NoExpected} \cup [given : {TRUE}, statuses : SUBSET {200, 404}]

Statuses == {200, 204, 302, 404, 500}

CallerHeaders == [authorization : {"none", "Basic"}, token_is_app : BOOLEAN]

RequestPath == "/repos/acme/widgets"

ResponseText == "response body"

(* _request: the text of the GitHubAppError for an unexpected status *)
request_error_message(path, status, detail) ==
    <<"GitHub API request to ", path, " failed with ", ToString(status), ": ", detail>>

request_error_ListedPasses(expected_status, status) ==
    IF expected_status.given /\ expected_status.statuses # {}
    THEN IF status \notin expected_status.statuses THEN "GitHubAppError" ELSE "none"
    ELSE IF ~Http2xx(status) THEN "HTTPStatusError" ELSE "none"

(* _request after the answer: the expected_status check, then              *)
(* response.raise_for_status(); "none" when the response is returned       *)
request_error(expected_status, status) ==
    IF expected_status.given /\ expected_status.statuses # {}
          /\ status \notin expected_status.statuses
    THEN "GitHubAppError"
    ELSE IF ~Http2xx(status) THEN "HTTPStatusError"
    ELSE "none"

(* _request called on its own: the request is sent *)
BeginRequest(p) ==
    /\ proc[p].pc = "idle"
    /\ \E expected_status \in ExpectedArgs, headers \in CallerHeaders :
          proc' = [proc EXCEPT ![p] =
              [Send([IdleProc EXCEPT !.op = "_request", !.expected = expected_status,
                                     !.hdr = headers],
                    "request_wait", "GET " \o RequestPath)
                  EXCEPT !.auth = request_authorization(
                                      headers,
                                      IF headers.token_is_app THEN "jwt" ELSE "inst",
                                      headers.token_is_app)]]
    /\ UNCHANGED <<routeVars, now, clientVars, minted, lastUse>>

(* the answer arrives; _request raises or returns it *)
RequestResponse(p) ==
    /\ proc[p].pc = "request_wait"
    /\ \E status \in Statuses :
          LET r == Observe(proc[p], status, ~Http2xx(status), "request")
              error == request_error(r.expected, status)
          IN proc' = [proc EXCEPT ![p] =
                IF error = "none" THEN [r EXCEPT !.pc = "done", !.outcome = "ok"]
                ELSE Fail(r, error,
                          IF error = "GitHubAppError"
                          THEN request_error_message(RequestPath, status, ResponseText)
                          ELSE <<"raise_for_status">>)]
    /\ UNCHANGED <<routeVars, now, clientVars, minted, lastUse>>

(* _clone_and_push called on its own with clone URLs that carry token t:   *)
(* mkdtemp, then git clone                                                 *)
BeginMirror(p) ==
    /\ proc[p].pc = "idle"
    /\ \E t \in 1..Len(minted), source_branch \in Branches, dest_branch \in Branches :
          proc' = [proc EXCEPT ![p] =
              RunGit([IdleProc EXCEPT !.op = "_clone_and_push", !.token = t,
                                      !.source = <<"acme", "/", "widgets">>,
                                      !.source_branch = source_branch,
                                      !.default_branch = dest_branch,
                                      !.dir = mkdtemp, !.tmpdir = TRUE], "clone")]
    /\ UNCHANGED <<routeVars, now, clientVars, minted, lastUse>>

(* the caller takes the result or the exception *)
Return(p) ==
    /\ proc[p].pc = "done"
    /\ proc' = [proc EXCEPT ![p] = IdleProc]
    /\ UNCHANGED <<routeVars, now, clientVars, minted, lastUse>>

(* ---------------- specifications ---------------- *)
(* Spec: the coroutines of Procs share the client and run the operations   *)
(* that only need a token, in any interleaving.                            *)
Next ==
    \/ Tick
    \/ \E p \in Procs :
        \/ BackendMint(p)
        \/ MintResponse(p)
        \/ BeginAccessToken(p)
        \/ BeginArchive(p)
        \/ ArchiveResponse(p)
        \/ BeginRefresh(p)
        \/ RefreshResponse(p)
        \/ Return(p)

Spec == Init /\ [][Next]_vars

(* WorkflowSpec: one coroutine runs the workflow operations one after the  *)
(* other, the multi-step ensure_seed_repository included.                  *)
WorkflowProcs == {1}

WorkflowNext ==
    \/ Tick
    \/ \E p \in WorkflowProcs :
        \/ BackendMint(p)
        \/ MintResponse(p)
        \/ BeginAccessToken(p)
        \/ BeginArchive(p)
        \/ ArchiveResponse(p)
        \/ BeginRefresh(p)
        \/ RefreshResponse(p)
        \/ BeginRequest(p)
        \/ RequestResponse(p)
        \/ BeginCandidate(p)
        \/ CandidateResponse(p)
        \/ BeginEnsureSeed(p)
        \/ SeedLookupResponse(p)
        \/ SeedCreateResponse(p)
        \/ GitFail(p)
        \/ GitNext(p)
        \/ GitPushed(p)
        \/ SeedReadResponse(p)
        \/ SeedRenameResponse(p)
        \/ SeedPatchResponse(p)
        \/ SeedRefResponse(p)
        \/ Return(p)

WorkflowSpec == Init /\ [][WorkflowNext]_vars

(* MirrorSpec: the coroutines of Procs call _clone_and_push in any         *)
(* interleaving.  It starts where one archive_repository call has run at   *)
(* time 0: the client holds the app JWT and the installation token the     *)
(* clone URLs carry.                                                       *)
MirrorInit ==
    /\ db = NoDb
    /\ txn = [p \in Procs |-> IdleTxn]
    /\ now = 0
    /\ app_jwt = [iat |-> 0 - JwtBackdate, exp |-> JwtValidity, iss |-> AppId]
    /\ app_jwt_expires_at = JwtValidity
    /\ minted = <<[exp |-> CHOOSE ttl \in TokenTTLs : TRUE, scoped |-> FALSE]>>
    /\ installation_token = 1
    /\ installation_token_expires_at = minted[1].exp
    /\ lastUse = [kind |-> "inst", token |-> 1, fresh |-> TRUE]
    /\ proc = [p \in Procs |-> IdleProc]

MirrorNext ==
    \/ Tick
    \/ \E p \in Procs :
        \/ BeginMirror(p)
        \/ GitFail(p)
        \/ GitNext(p)
        \/ GitPushed(p)
        \/ Return(p)

MirrorSpec == MirrorInit /\ [][MirrorNext]_vars

(* GatewaySpec: the coroutines of Procs call _request with any             *)
(* expected_status argument and get any status back.                       *)
GatewayNext ==
    \/ Tick
    \/ \E p \in Procs :
        \/ BeginRequest(p)
        \/ RequestResponse(p)
        \/ Return(p)

GatewaySpec == Init /\ [][GatewayNext]_vars

(* HelperSpec: one coroutine calls the module's pure helpers on any of the *)
(* inputs.                                                                 *)
HelperNext ==
    \/ Tick
    \/ \E p \in WorkflowProcs :
        \/ NormalizeKey(p)
        \/ ParseRef(p)
        \/ Slugify(p)
        \/ Return(p)

HelperSpec == Init /\ [][HelperNext]_vars

(* ---------------- candidate routes ---------------- *)
(* the link tokens a request can carry: the invitation's and another one *)
LinkTokens == {"link", "unknown"}

(* assessment.time_to_complete of the invitation's assessment, in seconds *)
TimeToComplete == 3600

(* the invitations start_assessment and submit_assessment are called on:   *)
(* sent, with or without a start deadline                                  *)
SentInvitations ==
    {[NoInvitation EXCEPT !.status = "sent", !.start_deadline = d] : d \in {NoTime, At(5)}}

(* the assessment's seed: missing, without a pinned SHA, or pinned *)
SeedConfigs == {"missing", "unpinned", "pinned"}

(* raise HTTPException(status_code): the session is closed, nothing of it  *)
(* reaches the database                                                    *)
Reject(r, status_code) == [r EXCEPT !.pc = "done", !.code = status_code]

(* _get_invitation_by_token: the invitation with its candidate_repo and    *)
(* access_tokens as the database holds them when the query runs            *)
get_invitation_by_token(r) ==
    [r EXCEPT !.invitation = db.invitation,
              !.seed = db.seed,
              !.candidate_repo = db.candidate_repos > 0,
              !.access_tokens = {i \in 1..Len(db.access_tokens) : ~db.access_tokens[i].revoked}]

(* start_assessment: invitation.start_deadline and now > start_deadline *)
StartWindowOver(invitation, t) ==
    invitation.start_deadline.set /\ t > invitation.start_deadline.at

(* start_assessment: the status check behind the 409 *)
AlreadyStarted(status) == status \in {"started", "submitted"}

(* start_assessment from the loaded invitation to its next await *)
StartDecision(r, t) ==
    IF StartWindowOver(r.invitation, t)
    THEN [r EXCEPT !.invitation.status = "expired", !.invitation.expired_at = At(t),
                   !.pc = "expire_commit"]
    ELSE IF AlreadyStarted(r.invitation.status) THEN Reject(r, 409)
    ELSE IF r.seed = "missing" THEN Reject(r, 400)
    ELSE IF r.seed = "unpinned" THEN Reject(r, 400)
    ELSE [r EXCEPT !.invitation.status = "started", !.invitation.started_at = At(t),
                   !.invitation.complete_deadline = At(t + TimeToComplete),
                   !.pc = IF r.candidate_repo THEN "start_commit" ELSE "start_flush"]

(* POST /api/start/{token} up to the first await after the lookup *)
StartAssessment(p) ==
    /\ txn[p].pc = "idle"
    /\ \E token \in LinkTokens :
          LET r == [IdleTxn EXCEPT !.op = "start_assessment", !.link = token]
          IN txn' = [txn EXCEPT ![p] =
                 IF token # "link" THEN Reject(r, 404)
                 ELSE StartDecision(get_invitation_by_token(r), now)]
    /\ UNCHANGED <<db, now, clientVars, minted, lastUse, proc>>

RepoNameTaken_Never(d) == FALSE

(* idx_candidate_repos_repo_full_name: the name candidate-{invitation.id}  *)
(* is already stored                                                       *)
RepoNameTaken(d) == d.candidate_repos > 0

(* session.flush() in start_assessment: the UPDATE of the invitation waits *)
(* for the row lock, then the INSERT of the candidate repository hits the  *)
(* unique index or goes through                                            *)
StartFlush(p) ==
    /\ txn[p].pc = "start_flush"
    /\ db.lock = 0
    /\ IF RepoNameTaken(db)
       THEN /\ txn' = [txn EXCEPT ![p] = Reject(@, 500)]
            /\ UNCHANGED db
       ELSE /\ txn' = [txn EXCEPT ![p].pc = "start_commit"]
            /\ db' = [db EXCEPT !.lock = p]
    /\ UNCHANGED <<now, clientVars, minted, lastUse, proc>>

(* session.commit() in start_assessment: the invitation's changed columns, *)
(* the candidate repository if this call added one, and the access token   *)
StartCommit(p) ==
    LET r == txn[p]
    IN /\ r.pc = "start_commit"
       /\ db.lock \in {0, p}
       /\ db' = [db EXCEPT !.invitation.status = r.invitation.status,
                           !.invitation.started_at = r.invitation.started_at,
                           !.invitation.complete_deadline = r.invitation.complete_deadline,
                           !.candidate_repos = IF r.candidate_repo THEN @ ELSE @ + 1,
                           !.access_tokens = Append(@, [revoked |-> FALSE, by |-> p]),
                           !.lock = 0]
       /\ txn' = [txn EXCEPT ![p] = [r EXCEPT !.pc = "done", !.code = 200,
                                               !.candidate_repo = TRUE]]
       /\ UNCHANGED <<now, clientVars, minted, lastUse, proc>>

(* session.commit() of the expiry in start_assessment, then the 410 *)
ExpireCommit(p) ==
    LET r == txn[p]
    IN /\ r.pc = "expire_commit"
       /\ db.lock = 0
       /\ db' = [db EXCEPT !.invitation.status = r.invitation.status,
                           !.invitation.expired_at = r.invitation.expired_at]
       /\ txn' = [txn EXCEPT ![p] = Reject(r, 410)]
       /\ UNCHANGED <<now, clientVars, minted, lastUse, proc>>

SubmitAllowed_NotSent(status) == status # "sent"

(* submit_assessment: invitation.status != started gives the 409 *)
SubmitAllowed(status) == status = "started"

(* POST /api/submit/{token} up to session.commit() *)
SubmitAssessment(p) ==
    /\ txn[p].pc = "idle"
    /\ \E token \in LinkTokens :
          LET r0 == [IdleTxn EXCEPT !.op = "submit_assessment", !.link = token]
              r == get_invitation_by_token(r0)
          IN txn' = [txn EXCEPT ![p] =
                 IF token # "link" THEN Reject(r0, 404)
                 ELSE IF ~SubmitAllowed(r.invitation.status) THEN Reject(r, 409)
                 ELSE IF ~r.candidate_repo THEN Reject(r, 400)
                 ELSE [r EXCEPT !.invitation.status = "submitted",
                                !.invitation.submitted_at = At(now),
                                !.pc = "submit_commit"]]
    /\ UNCHANGED <<db, now, clientVars, minted, lastUse, proc>>

(* session.commit() in submit_assessment: the invitation, the submission   *)
(* and the access tokens the session had loaded as not revoked             *)
SubmitCommit(p) ==
    LET r == txn[p]
    IN /\ r.pc = "submit_commit"
       /\ db.lock = 0
       /\ db' = [db EXCEPT !.invitation.status = r.invitation.status,
                           !.invitation.submitted_at = r.invitation.submitted_at,
                           !.submissions = @ + 1,
                           !.access_tokens =
                               [i \in 1..Len(@) |->
                                   IF i \in r.access_tokens THEN [@[i] EXCEPT !.revoked = TRUE]
                                   ELSE @[i]]]
       /\ txn' = [txn EXCEPT ![p] = [r EXCEPT !.pc = "done", !.code = 200]]
       /\ UNCHANGED <<now, clientVars, minted, lastUse, proc>>

(* the response is sent and the handler is free for the next request *)
RouteReturn(p) ==
    /\ txn[p].pc = "done"
    /\ txn' = [txn EXCEPT ![p] = IdleTxn]
    /\ UNCHANGED <<db, now, clientVars, minted, lastUse, proc>>

(* CandidateSpec: two handlers serve start_assessment and                  *)
(* submit_assessment requests on one invitation in any interleaving. The   *)
(* invitation is sent, with or without a start deadline.                   *)
CandidateInit ==
    /\ \E invitation \in SentInvitations, seed \in SeedConfigs :
          db = [NoDb EXCEPT !.invitation = invitation, !.seed = seed]
    /\ txn = [p \in Procs |-> IdleTxn]
    /\ now = 0
    /\ app_jwt = NoJwt
    /\ app_jwt_expires_at = 0
    /\ installation_token = NoToken
    /\ installation_token_expires_at = 0
    /\ minted = <<>>
    /\ lastUse = NoUse
    /\ proc = [p \in Procs |-> IdleProc]

CandidateNext ==
    \/ Tick
    \/ \E p \in Procs :
        \/ StartAssessment(p)
        \/ StartFlush(p)
        \/ StartCommit(p)
        \/ ExpireCommit(p)
        \/ SubmitAssessment(p)
        \/ SubmitCommit(p)
        \/ RouteReturn(p)

CandidateSpec == CandidateInit /\ [][CandidateNext]_vars

(* ---------------- GitHub installation routes ---------------- *)
(* the organizations of the orgs table *)
OrgIds == {"org-a", "org-b"}

(* timedelta(minutes=30), in seconds *)
StateValidity == 1800

(* the state tokens secrets.token_urlsafe hands out are numbered as they   *)
(* are made; the model stops making them at MaxStateTokens                 *)
MaxStateTokens == 2

(* handlers that are about to store a new state *)
StartsUnderWay ==
    Cardinality({q \in Procs : txn[q].pc \in {"delete_states", "install_commit"}})

(* POST /api/github/installations/start up to the DELETE: the lookup of    *)
(* the organization and the membership check                               *)
StartInstallation(p) ==
    /\ txn[p].pc = "idle"
    /\ db.state_tokens + StartsUnderWay < MaxStateTokens
    /\ \E org_id \in OrgIds \cup {"missing"}, allowed \in BOOLEAN :
          LET r == [IdleTxn EXCEPT !.op = "start_github_installation", !.org = org_id]
          IN txn' = [txn EXCEPT ![p] =
                 IF org_id \notin OrgIds THEN Reject(r, 404)
                 ELSE IF ~allowed THEN Reject(r, 403)
                 ELSE [r EXCEPT !.pc = "delete_states"]]
    /\ UNCHANGED <<db, now, clientVars, minted, lastUse, proc>>

DeletedStates_None(d, org_id) == {}

(* delete(GitHubInstallationState).where(org_id == org_id): the rows the   *)
(* statement finds committed when it runs                                  *)
DeletedStates(d, org_id) == {s \in d.states : s.org = org_id}

(* the DELETE is executed in the handler's transaction, then the new state *)
(* is built with its expiry                                                *)
DeleteStates(p) ==
    /\ txn[p].pc = "delete_states"
    /\ txn' = [txn EXCEPT ![p].deleted = DeletedStates(db, txn[p].org),
                          ![p].expires_at = now + StateValidity,
                          ![p].pc = "install_commit"]
    /\ UNCHANGED <<db, now, clientVars, minted, lastUse, proc>>

(* models.GitHubInstallationState: a new row is refused only when its      *)
(* token is already stored                                                 *)
StateRowConflict(d, state) == \E s \in d.states : s.token = state.token

(* session.commit() in start_github_installation *)
InstallCommit(p) ==
    LET r == txn[p]
        state == [token |-> db.state_tokens + 1, org |-> r.org, expires_at |-> r.expires_at]
    IN /\ r.pc = "install_commit"
       /\ IF StateRowConflict(db, state)
          THEN /\ txn' = [txn EXCEPT ![p] = Reject(r, 500)]
               /\ UNCHANGED db
          ELSE /\ db' = [db EXCEPT !.states = (@ \ r.deleted) \cup {state},
                                   !.state_tokens = @ + 1]
               /\ txn' = [txn EXCEPT ![p] = [r EXCEPT !.pc = "done", !.code = 200,
                                                       !.state = state.token]]
       /\ UNCHANGED <<now, clientVars, minted, lastUse, proc>>

(* POST /api/github/installations/complete up to the first await after the *)
(* lookup of the state; token 0 is the empty string                        *)
CompleteInstallation(p) ==
    /\ txn[p].pc = "idle"
    /\ \E token \in 0..MaxStateTokens, allowed \in BOOLEAN :
          LET r == [IdleTxn EXCEPT !.op = "complete_github_installation", !.state = token]
              found == {s \in db.states : s.token = token}
              state == CHOOSE s \in found : TRUE
          IN txn' = [txn EXCEPT ![p] =
                 IF token = 0 THEN Reject(r, 400)
                 ELSE IF found = {} THEN Reject(r, 400)
                 ELSE IF state.expires_at < now
                 THEN [r EXCEPT !.deleted = {state}, !.pc = "expired_commit"]
                 ELSE IF ~allowed THEN Reject([r EXCEPT !.org = state.org], 403)
                 ELSE [r EXCEPT !.org = state.org, !.deleted = {state}, !.pc = "fetch_wait"]]
    /\ UNCHANGED <<db, now, clientVars, minted, lastUse, proc>>

(* session.delete(state) and session.commit() of an expired state *)
ExpiredCommit(p) ==
    LET r == txn[p]
    IN /\ r.pc = "expired_commit"
       /\ db' = [db EXCEPT !.states = @ \ r.deleted]
       /\ txn' = [txn EXCEPT ![p] = Reject(r, 410)]
       /\ UNCHANGED <<now, clientVars, minted, lastUse, proc>>

(* what fetch_installation can give: an error, or a payload without an     *)
(* account, of a user account, without login, without id, or a good one    *)
InstallationPayloads == {"error", "no_account", "user", "no_login", "no_id", "ok"}

(* the status the handler answers for a payload it refuses, 0 for none *)
PayloadStatus(payload) ==
    CASE payload = "error" -> 502
      [] payload = "no_account" -> 502
      [] payload = "user" -> 400
      [] payload = "no_login" -> 502
      [] payload = "no_id" -> 502
      [] OTHER -> 0

(* fetch_installation answers and the payload is validated *)
FetchAnswer(p) ==
    /\ txn[p].pc = "fetch_wait"
    /\ \E payload \in InstallationPayloads :
          txn' = [txn EXCEPT ![p] =
              IF PayloadStatus(payload) # 0 THEN Reject(@, PayloadStatus(payload))
              ELSE [@ EXCEPT !.pc = "complete_commit"]]
    /\ UNCHANGED <<db, now, clientVars, minted, lastUse, proc>>

(* the installation is stored, session.delete(state), session.commit() *)
CompleteCommit(p) ==
    LET r == txn[p]
    IN /\ r.pc = "complete_commit"
       /\ db' = [db EXCEPT !.states = @ \ r.deleted,
                           !.installations = @ \cup {r.org}]
       /\ txn' = [txn EXCEPT ![p] = [r EXCEPT !.pc = "done", !.code = 200]]
       /\ UNCHANGED <<now, clientVars, minted, lastUse, proc>>

(* InstallSpec: two handlers serve the installation routes in any          *)
(* interleaving, starting with no state stored.                            *)
InstallNext ==
    \/ Tick
    \/ \E p \in Procs :
        \/ StartInstallation(p)
        \/ DeleteStates(p)
        \/ InstallCommit(p)
        \/ CompleteInstallation(p)
        \/ ExpiredCommit(p)
        \/ FetchAnswer(p)
        \/ CompleteCommit(p)
        \/ RouteReturn(p)

InstallSpec == Init /\ [][InstallNext]_vars

(* ---------------- properties ---------------- *)
MintCall == "POST /app/installations/access_tokens"

MintCount(r) == Cardinality({i \in 1..Len(r.issued) : r.issued[i] = MintCall})

LastIssued(r) == IF r.issued = <<>> THEN "none" ELSE r.issued[Len(r.issued)]

ScopedOp == "create_repository_access_token"

(* coroutine p calls _get_cached_installation_token in this step *)
TokenRequested(p) == proc'[p].ret \notin {"none", proc[p].ret}

(* a token is cached and the clock is more than 60 s before its expiry *)
CachedInWindow ==
    /\ installation_token # NoToken
    /\ now + 60 < installation_token_expires_at

(* C1: a default-token request made while a token is cached and the clock  *)
(* is more than 60 s before the cached expiry returns the cached token,    *)
(* issues no call to the installation-token endpoint and leaves the cache  *)
(* as it was; this holds for every such request, also consecutive ones.    *)
C1_CachedTokenReturned ==
    [][\A p \in Procs :
          (TokenRequested(p) /\ CachedInWindow) =>
              /\ proc'[p].token = installation_token
              /\ proc'[p].pc # "mint_sent"
              /\ MintCount(proc'[p]) = MintCount(proc[p])
              /\ lastUse'.kind # "jwt"
              /\ UNCHANGED <<clientVars, minted>>]_vars

(* two requests in a row were both answered from the cache *)
C1_Witness ==
    \E p, q \in Procs :
        /\ p # q
        /\ installation_token # NoToken
        /\ proc[p].pc \in {"arch_wait", "ref_wait"} /\ proc[q].pc \in {"arch_wait", "ref_wait"}
        /\ proc[p].token = installation_token /\ proc[q].token = installation_token
        /\ MintCount(proc[p]) = 0 /\ MintCount(proc[q]) = 0

(* C2: a default-token request made when nothing is cached or fewer than   *)
(* 60 s remain issues one call to the installation-token endpoint; when    *)
(* the answer carries a token and an expiry they are stored in the cache,  *)
(* the new token is returned, it differs from the one cached before, and   *)
(* the request is never issued a second time.                              *)
C2_StaleTokenRefreshedOnce ==
    [][\A p \in Procs :
          /\ (TokenRequested(p) /\ ~CachedInWindow) =>
                /\ proc'[p].pc = "mint_sent"
                /\ MintCount(proc'[p]) = MintCount(proc[p]) + 1
                /\ lastUse'.kind = "jwt"
          /\ (proc[p].pc = "mint_replied" /\ proc'[p] # proc[p]) =>
                MintCount(proc'[p]) = MintCount(proc[p])
          /\ (/\ proc[p].pc = "mint_replied" /\ proc'[p] # proc[p]
              /\ proc[p].op # ScopedOp /\ proc[p].resp.kind = "ok") =>
                /\ installation_token' = proc[p].resp.token
                /\ installation_token_expires_at' = proc[p].resp.exp
                /\ proc'[p].token = proc[p].resp.token
                /\ proc[p].resp.token # installation_token
          /\ MintCount(proc'[p]) <= 1]_vars

(* a refresh replaced an earlier cached token and its caller holds the new one *)
C2_Witness ==
    \E p \in Procs :
        /\ proc[p].pc \in {"arch_wait", "ref_wait"}
        /\ MintCount(proc[p]) = 1
        /\ proc[p].token = installation_token
        /\ installation_token > 1
        /\ ~minted[1].scoped

(* C3 (as claimed): whenever an installation token is sent in a request or *)
(* put in a git transport URL the clock is before its expiry minus 60 s,   *)
(* and whenever an app assertion is sent the clock is before its expiry    *)
(* minus 30 s.                                                             *)
C3_NoCredentialUsedPastMargin == lastUse.kind # "none" => lastUse.fresh

(* C4: a scoped mint (create_repository_access_token) never writes the     *)
(* default-token cache, whether it succeeds or fails, and neither the      *)
(* cache nor a default-token request ever holds a token minted as scoped.  *)
C4_ScopedMintLeavesCache ==
    [][/\ \A p \in Procs :
             (proc'[p] # proc[p] /\ (proc[p].op = ScopedOp \/ proc'[p].op = ScopedOp)) =>
                 UNCHANGED <<installation_token, installation_token_expires_at>>
       /\ installation_token' # NoToken => ~minted'[installation_token'].scoped
       /\ \A p \in Procs :
             (proc'[p].op # ScopedOp /\ proc'[p].token # NoToken) =>
                 ~minted'[proc'[p].token].scoped]_vars

(* a scoped mint has returned its token while another token is cached *)
C4_Witness ==
    \E p \in Procs :
        /\ proc[p].op = ScopedOp /\ proc[p].pc = "done" /\ proc[p].outcome = "ok"
        /\ installation_token # NoToken
        /\ proc[p].result.token # installation_token
        /\ minted[proc[p].result.token].scoped

SeedOp == "ensure_seed_repository"

(* C5: when the source lookup is answered with 404, ensure_seed_repository *)
(* ends with the not-found GitHubAppError and the lookup is the last thing *)
(* it issued: no create call, no git command, no later hosting call.       *)
C5_NotFoundStopsBeforeCreate ==
    \A p \in Procs :
        (proc[p].op = SeedOp /\ proc[p].failed = "lookup" /\ proc[p].status = 404) =>
            /\ proc[p].pc = "done"
            /\ proc[p].outcome = "GitHubAppError"
            /\ proc[p].msg = <<"Source repository not found or inaccessible">>
            /\ LastIssued(proc[p]) = "GET /repos/source"
            /\ ~proc[p].repo.exists
            /\ ~proc[p].tmpdir

(* the lookup was answered with 404 *)
C5_Witness ==
    \E p \in Procs :
        proc[p].op = SeedOp /\ proc[p].failed = "lookup" /\ proc[p].status = 404

(* C6: ensure_seed_repository returns successfully only if the final read  *)
(* of the branch reference returned a string SHA; when that answer has no  *)
(* SHA the operation fails and returns no descriptor.                      *)
C6_ReadyNeedsSha ==
    \A p \in Procs :
        (proc[p].op = SeedOp /\ proc[p].pc = "done") =>
            /\ proc[p].outcome = "ok" =>
                  /\ LastIssued(proc[p]) = "GET /git/ref"
                  /\ proc[p].status = 200
                  /\ proc[p].sha = "sha"
                  /\ proc[p].result.sha = "sha"
            /\ (LastIssued(proc[p]) = "GET /git/ref" /\ proc[p].status # 200) =>
                  /\ proc[p].outcome \notin {"ok", "none"}
                  /\ proc[p].result = NoResult

(* ensure_seed_repository has returned a descriptor *)
C6_Witness ==
    \E p \in Procs :
        /\ proc[p].op = SeedOp /\ proc[p].pc = "done" /\ proc[p].outcome = "ok"
        /\ proc[p].result.sha = "sha"

(* C7 (as claimed): whenever ensure_seed_repository returns successfully   *)
(* the seed repository on the hosting side is a private template whose     *)
(* default branch is the requested branch.                                 *)
C7_ReadySeedIsTemplate ==
    \A p \in Procs :
        (proc[p].op = SeedOp /\ proc[p].pc = "done" /\ proc[p].outcome = "ok") =>
            /\ proc[p].repo.exists
            /\ proc[p].repo.is_template
            /\ proc[p].repo.private
            /\ proc[p].repo.default_branch = proc[p].default_branch

AbortSteps == {"lookup", "create", "git", "rename", "sha"}

StepCall(r) ==
    CASE r.failed = "lookup" -> "GET /repos/source"
      [] r.failed = "create" -> "POST /orgs/repos"
      [] r.failed = "git" -> "git " \o r.git
      [] r.failed = "rename" -> "POST /branches/rename"
      [] r.failed = "sha" -> "GET /git/ref"
      [] OTHER -> "none"

(* C8: in ensure_seed_repository a failed source lookup, repository        *)
(* create, git command, branch rename or SHA resolution ends the           *)
(* invocation in failure with the failed step as the last thing issued,    *)
(* no delete call is ever issued, and a seed repository created before the *)
(* failure still exists.                                                   *)
C8_FailureAbortsWithoutRollback ==
    \A p \in Procs :
        (proc[p].op = SeedOp /\ proc[p].failed \in AbortSteps) =>
            /\ proc[p].pc = "done"
            /\ proc[p].outcome \notin {"ok", "none"}
            /\ LastIssued(proc[p]) = StepCall(proc[p])
            /\ \A i \in 1..Len(proc[p].issued) : proc[p].issued[i] # "DELETE /repos/seed"
            /\ proc[p].failed \in {"git", "rename", "sha"} => proc[p].repo.exists

(* the rename failed after the seed repository was created and mirrored *)
C8_Witness ==
    \E p \in Procs :
        /\ proc[p].op = SeedOp /\ proc[p].failed = "rename" /\ proc[p].pc = "done"
        /\ proc[p].repo.exists /\ proc[p].repo.branches # {}

(* C9 (as claimed): every failure of a workflow operation reaches the      *)
(* caller as GitHubAppError: none surfaces as another error type and none  *)
(* is swallowed.                                                           *)
C9_SingleErrorType ==
    \A p \in Procs :
        proc[p].pc = "done" =>
            /\ proc[p].outcome \in {"ok", "GitHubAppError"}
            /\ proc[p].failed # "none" => proc[p].outcome = "GitHubAppError"

(* C10 (as claimed): the error raised for a failing git command whose      *)
(* arguments hold a URL with x-access-token:<token> never contains the     *)
(* token.                                                                  *)
C10_GitErrorHidesToken ==
    \A p \in Procs :
        (/\ proc[p].pc = "done" /\ proc[p].failed = "git"
         /\ \E i \in 1..Len(GitArgs(proc[p])) : Contains(GitArgs(proc[p])[i], "x-access-token:")) =>
            ~Contains(proc[p].msg, TokenText(proc[p].token))

(* C11: the working directory that _clone_and_push created exists only    *)
(* while its git commands run: once the invocation has returned or has     *)
(* raised for a failing clone, remote add, checkout, branch -M or push,    *)
(* the directory is gone, and a failing command reaches the caller as      *)
(* GitHubAppError.                                                         *)
MirrorOp == "_clone_and_push"

MalformedRefs == {<<"widgets">>, <<" ">>}

C12_MalformedRefFailsAtOnce ==
    [][\A p \in Procs :
          (/\ proc[p].pc = "idle"
           /\ proc'[p].op = SeedOp
           /\ proc'[p].source \in MalformedRefs) =>
              /\ proc'[p].pc = "done"
              /\ proc'[p].outcome = "ValueError"
              /\ proc'[p].ret = "none"
              /\ proc'[p].issued = <<>>
              /\ ~proc'[p].tmpdir
              /\ UNCHANGED <<clientVars, minted, lastUse>>]_vars

(* a one-segment reference was refused while a token was cached *)
C12_Witness ==
    \E p \in Procs :
        /\ proc[p].op = SeedOp /\ proc[p].source = <<"widgets">>
        /\ proc[p].pc = "done" /\ proc[p].outcome = "ValueError"
        /\ proc[p].issued = <<>>
        /\ installation_token # NoToken

(* C13: on one client, two requests for the default token that both saw a  *)
(* stale cache each mint their own token.  Whatever the interleaving, the  *)
(* token a request gets is one that a mint response of this client         *)
(* carried, it is a default token and the clock is before its expiry; a    *)
(* request ends in an error only when an answer from outside was bad; and  *)
(* a request under way always has a step it can take.                      *)
DefaultOps == {"archive_repository", "refresh_branch_sha"}

TokenReturned(p) ==
    /\ proc[p].pc \in {"idle", "mint_replied"}
    /\ proc'[p].op \in DefaultOps
    /\ proc'[p].pc \in {"arch_wait", "ref_wait"}

CanStep(p) ==
    ENABLED (BackendMint(p) \/ MintResponse(p) \/ ArchiveResponse(p)
             \/ RefreshResponse(p) \/ Return(p))

C13_InterleavedRequestsGetLiveTokens ==
    [][\A p \in Procs :
          /\ TokenReturned(p) =>
                /\ proc'[p].token \in 1..Len(minted)
                /\ ~minted[proc'[p].token].scoped
                /\ now < minted[proc'[p].token].exp
          /\ (proc'[p].op \in DefaultOps /\ proc'[p].pc = "done"
               /\ proc'[p].outcome # "ok") => proc'[p].failed # "none"
          /\ proc[p].pc # "idle" => CanStep(p)]_vars

(* both coroutines saw the stale cache, both minted, and each is using the *)
(* token of its own mint response                                          *)
C13_Witness ==
    \E p, q \in Procs :
        /\ p # q
        /\ proc[p].op \in DefaultOps /\ proc[q].op \in DefaultOps
        /\ MintCount(proc[p]) = 1 /\ MintCount(proc[q]) = 1
        /\ proc[p].pc \in {"arch_wait", "ref_wait"}
        /\ proc[q].pc \in {"arch_wait", "ref_wait"}
        /\ proc[p].token # NoToken /\ proc[q].token # NoToken
        /\ proc[p].token # proc[q].token

(* C14: while an invocation of _clone_and_push runs its git commands, the  *)
(* directory it created exists, the clone goes into it, every later        *)
(* command runs in it, and no other running invocation has a directory of  *)
(* the same name; so whatever another invocation does, end or fail, this   *)
(* one's directory stays.                                                  *)
Mirroring(p) == proc[p].pc = "git_wait"

C14_WorkDirsIsolated ==
    \A p \in Procs :
        Mirroring(p) =>
            /\ proc[p].dir \in TempNames
            /\ proc[p].tmpdir
            /\ IF proc[p].git = "clone"
               THEN GitArgs(proc[p])[Len(GitArgs(proc[p]))] = <<proc[p].dir, "/repo">>
               ELSE GitCwd(proc[p]) = <<proc[p].dir, "/repo">>
            /\ \A q \in Procs \ {p} : Mirroring(q) => proc[q].dir # proc[p].dir

(* one invocation failed and removed its directory while another one was   *)
(* past its clone                                                          *)
C14_Witness ==
    \E p, q \in Procs :
        /\ p # q
        /\ Mirroring(p) /\ proc[p].git # "clone" /\ proc[p].tmpdir
        /\ proc[q].op = MirrorOp /\ proc[q].pc = "done" /\ proc[q].failed = "git"
        /\ proc[q].dir \in TempNames \ {proc[p].dir}

(* C15 (as claimed): an app JWT signed at time now has exp - iat = 540,    *)
(* iat <= now and the application id as issuer.                            *)
C15_JwtSpansNineMinutes ==
    app_jwt # NoJwt =>
        /\ app_jwt.exp - app_jwt.iat = 540
        /\ app_jwt.iat <= now
        /\ app_jwt.iss = AppId

(* C15 (amended): an app JWT signed at time now has exp = now + 540 and    *)
(* iat = now - 60, hence exp - iat = 600 and iat <= now; its issuer is the *)
(* application id and the cached expiry is now + 540.                      *)
C15_JwtBackdatedSpansTenMinutes ==
    [][app_jwt' # app_jwt =>
          /\ app_jwt'.exp = now + 540
          /\ app_jwt'.iat = now - 60
          /\ app_jwt'.exp - app_jwt'.iat = 600
          /\ app_jwt'.iat <= now
          /\ app_jwt'.iss = AppId
          /\ app_jwt_expires_at' = now + 540]_vars

(* a JWT signed at the present instant, after an earlier one went stale *)
C15_Witness ==
    /\ now > JwtValidity
    /\ app_jwt # NoJwt
    /\ app_jwt.iat = now - 60
    /\ \E p \in Procs : proc[p].pc = "mint_sent" /\ proc[p].bearer = app_jwt

(* C16: when a token-mint request starts and a JWT is cached with the      *)
(* clock more than 30 s before its expiry, the request carries that JWT    *)
(* and the cached JWT and its expiry stay; otherwise a JWT signed now      *)
(* replaces the cached one, the cached expiry becomes now + 540, and the   *)
(* request carries the new one.  Nothing else changes the cached JWT.      *)
MintStarted(p) == proc[p].pc # "mint_sent" /\ proc'[p].pc = "mint_sent"

C16_JwtResignedOnlyWhenStale ==
    [][/\ \A p \in Procs :
            MintStarted(p) =>
                /\ proc'[p].bearer = app_jwt'
                /\ IF app_jwt # NoJwt /\ now + 30 < app_jwt_expires_at
                   THEN UNCHANGED <<app_jwt, app_jwt_expires_at>>
                   ELSE /\ app_jwt' = [iat |-> now - 60, exp |-> now + 540, iss |-> AppId]
                        /\ app_jwt_expires_at' = now + 540
       /\ (\A p \in Procs : ~MintStarted(p)) => UNCHANGED <<app_jwt, app_jwt_expires_at>>]_vars

(* the one coroutine's second mint request, sent at time 5 after its first *)
(* was answered at time 5, carries the JWT signed at time 0                *)
C16_Witness ==
    \E p \in WorkflowProcs :
        /\ now = 5
        /\ Len(minted) = 1 /\ minted[1].exp = now + 3600
        /\ proc[p].pc = "mint_sent"
        /\ proc[p].bearer = app_jwt
        /\ app_jwt.iat = 0 - 60

(* C17 (as claimed): once the generate call is answered,                   *)
(* create_candidate_repository ends with GitHubAppError when the status is *)
(* neither 201 nor 202, when full_name is not a string, or when id is      *)
(* neither an integer nor a numeric string; in every other case it         *)
(* returns a descriptor whose id is an integer.                            *)
CandidateOp == "create_candidate_repository"

C17_CandidateAnswerValidated ==
    \A p \in Procs :
        (proc[p].op = CandidateOp /\ proc[p].pc = "done" /\ proc[p].status # NoStatus) =>
            IF \/ proc[p].status \notin {201, 202}
               \/ proc[p].repo_data.full_name # "str"
               \/ proc[p].repo_data.id \notin {"int", "numstr"}
            THEN proc[p].outcome = "GitHubAppError"
            ELSE proc[p].outcome = "ok" /\ proc[p].result.id = "int"

(* C18: a call of create_repository_access_token(repo_id, permissions)     *)
(* sends one request to the installation-token endpoint and nothing else;  *)
(* the request carries the app JWT, its body names the repository ids      *)
(* [repo_id] and the given permissions, or contents: write and metadata:   *)
(* read when permissions is None or empty; the token and expiry of the     *)
(* answer are what the caller gets.                                        *)
C18_ScopedMintRequest ==
    [][\A p \in Procs :
          /\ (proc[p].pc = "idle" /\ proc'[p].op = ScopedOp) =>
                /\ proc'[p].pc = "mint_sent"
                /\ proc'[p].issued = <<MintCall>>
                /\ proc'[p].bearer = app_jwt' /\ app_jwt' # NoJwt
                /\ lastUse'.kind = "jwt"
                /\ proc'[p].body.repository_ids = <<proc'[p].args.repo_id>>
                /\ proc'[p].body.permissions =
                      IF proc'[p].args.permissions \in
                            {NoPermissions, [given |-> TRUE, map |-> {}]}
                      THEN {<<"contents", "write">>, <<"metadata", "read">>}
                      ELSE proc'[p].args.permissions.map
          /\ (proc[p].op = ScopedOp /\ proc[p].pc = "mint_replied"
               /\ proc[p].resp.kind = "ok" /\ proc'[p] # proc[p]) =>
                /\ proc'[p].pc = "done" /\ proc'[p].outcome = "ok"
                /\ proc'[p].result.token = proc[p].resp.token
                /\ proc'[p].result.exp = proc[p].resp.exp
          /\ proc'[p].op = ScopedOp => proc'[p].issued = <<MintCall>>]_vars

(* a call with an empty permissions mapping is waiting for its answer, the *)
(* default permissions in its body                                         *)
C18_Witness ==
    \E p \in Procs :
        /\ proc[p].op = ScopedOp /\ proc[p].pc = "mint_sent"
        /\ proc[p].args.permissions = [given |-> TRUE, map |-> {}]
        /\ proc[p].body = [repository_ids |-> <<proc[p].args.repo_id>>,
                           permissions |-> DefaultPermissions]

(* C19 (as claimed): when the answer to a token-mint request has no string *)
(* token, no string expiry or an expiry that is not an ISO-8601 time, the  *)
(* operation ends with GitHubAppError, sends no further request, and the   *)
(* cached token and its expiry are what they were.                         *)
MalformedMintAnswers == {"no_token", "no_expiry", "bad_expiry"}

C19_MalformedMintAnswerRaisesBrokerError ==
    [][\A p \in Procs :
          (/\ proc[p].pc = "mint_replied"
           /\ proc[p].resp.kind \in MalformedMintAnswers
           /\ proc'[p] # proc[p]) =>
              /\ proc'[p].pc = "done"
              /\ proc'[p].outcome = "GitHubAppError"
              /\ proc'[p].issued = proc[p].issued
              /\ UNCHANGED <<installation_token, installation_token_expires_at>>]_vars

(* C20 (as claimed): _request with expected statuses and a status that is  *)
(* not one of them raises GitHubAppError whose text holds the path, the    *)
(* status and the body; with expected statuses and a status that is one of *)
(* them it returns the response; without expected statuses it raises on a  *)
(* status outside 2xx and returns the response on a 2xx status.            *)
Supplied(expected_status) == expected_status.given /\ expected_status.statuses # {}

RequestDone(p) == proc[p].op = "_request" /\ proc[p].pc = "done"

UnexpectedStatusRaises(p) ==
    (Supplied(proc[p].expected) /\ proc[p].status \notin proc[p].expected.statuses) =>
        /\ proc[p].outcome = "GitHubAppError"
        /\ \E i, j, k \in 1..Len(proc[p].msg) :
              /\ proc[p].msg[i] = RequestPath
              /\ proc[p].msg[j] = ToString(proc[p].status)
              /\ proc[p].msg[k] = ResponseText

NoExpectedFallsBack(p) ==
    ~Supplied(proc[p].expected) =>
        IF proc[p].status >= 200 /\ proc[p].status <= 299
        THEN proc[p].outcome = "ok"
        ELSE proc[p].outcome = "HTTPStatusError"

C20_ListedStatusReturns ==
    \A p \in Procs :
        RequestDone(p) =>
            /\ UnexpectedStatusRaises(p)
            /\ (Supplied(proc[p].expected) /\ proc[p].status \in proc[p].expected.statuses) =>
                  proc[p].outcome = "ok"
            /\ NoExpectedFallsBack(p)

(* C20 (amended): as claimed, except that with expected statuses and a     *)
(* status that is one of them the response is returned only if the status  *)
(* is 2xx; a listed status outside 2xx raises httpx's HTTPStatusError.     *)
(* None and an empty sequence both count as no expected statuses.          *)
C20_ListedStatusStillNeeds2xx ==
    \A p \in Procs :
        RequestDone(p) =>
            /\ UnexpectedStatusRaises(p)
            /\ (Supplied(proc[p].expected) /\ proc[p].status \in proc[p].expected.statuses) =>
                  IF proc[p].status >= 200 /\ proc[p].status <= 299
                  THEN proc[p].outcome = "ok"
                  ELSE proc[p].outcome = "HTTPStatusError"
            /\ NoExpectedFallsBack(p)

(* 404 was expected and 404 came back, yet the call raised *)
C20_Witness ==
    \E p \in Procs :
        /\ RequestDone(p)
        /\ 404 \in proc[p].expected.statuses
        /\ proc[p].status = 404
        /\ proc[p].outcome = "HTTPStatusError"

(* C21: whenever a request goes to the hosting side, its Authorization     *)
(* header is "Bearer" with the app JWT if it goes to the                   *)
(* installation-token endpoint and "token" with an installation token      *)
(* otherwise; a call of _request carries the scheme of its token_is_app    *)
(* flag whatever Authorization header its caller passed.                   *)
HttpSent(p) ==
    /\ Len(proc'[p].issued) > Len(proc[p].issued)
    /\ proc'[p].pc # "git_wait"

C21_SchemeMatchesCredential ==
    [][\A p \in Procs :
          HttpSent(p) =>
              /\ proc'[p].auth.scheme \in {"Bearer", "token"}
              /\ proc'[p].auth.scheme = "Bearer" <=> proc'[p].auth.kind = "jwt"
              /\ proc'[p].auth.scheme = "token" <=> proc'[p].auth.kind = "inst"
              /\ IF proc'[p].op = "_request"
                 THEN proc'[p].auth.scheme =
                          IF proc'[p].hdr.token_is_app THEN "Bearer" ELSE "token"
                 ELSE IF LastIssued(proc'[p]) = MintCall
                 THEN /\ proc'[p].auth.scheme = "Bearer"
                      /\ proc'[p].bearer = app_jwt' /\ app_jwt' # NoJwt
                 ELSE /\ proc'[p].auth.scheme = "token"
                      /\ proc'[p].token \in 1..Len(minted)]_vars

(* _request was called with an Authorization header of the caller's and    *)
(* an app JWT: the request went out with Bearer                            *)
C21_Witness ==
    \E p \in Procs :
        /\ proc[p].op = "_request" /\ proc[p].pc = "request_wait"
        /\ proc[p].hdr = [authorization |-> "Basic", token_is_app |-> TRUE]
        /\ proc[p].auth = [scheme |-> "Bearer", kind |-> "jwt"]

(* C22 (as claimed): refresh_branch_sha reads the branch reference once    *)
(* and writes nothing; when the answer carries a string SHA it returns     *)
(* that SHA, and when the answer carries none, whatever its status, it     *)
(* ends with GitHubAppError.                                               *)
RefreshOp == "refresh_branch_sha"

C22_MissingShaIsBrokerError ==
    \A p \in Procs :
        (proc[p].op = RefreshOp /\ proc[p].pc = "done" /\ proc[p].status # NoStatus) =>
            /\ Cardinality({i \in 1..Len(proc[p].issued) :
                                proc[p].issued[i] = "GET /git/ref"}) = 1
            /\ \A i \in 1..Len(proc[p].issued) :
                  proc[p].issued[i] \in {MintCall, "GET /git/ref"}
            /\ IF proc[p].failed = "sha"
               THEN proc[p].outcome = "GitHubAppError"
               ELSE proc[p].outcome = "ok" /\ proc[p].result.sha = "sha"

(* C23: archive_repository sends one PATCH whose body sets archived to     *)
(* true, sends nothing else apart from a token mint, and whatever status   *)
(* the PATCH is answered with, the operation returns to its caller         *)
(* without an error.                                                       *)
ArchiveOp == "archive_repository"

ArchiveCall == "PATCH /repos/archive"

C23_ArchiveIsBestEffort ==
    \A p \in Procs :
        proc[p].op = ArchiveOp =>
            /\ \A i \in 1..Len(proc[p].issued) : proc[p].issued[i] \in {MintCall, ArchiveCall}
            /\ Cardinality({i \in 1..Len(proc[p].issued) : proc[p].issued[i] = ArchiveCall}) <= 1
            /\ proc[p].pc = "arch_wait" =>
                  /\ LastIssued(proc[p]) = ArchiveCall
                  /\ proc[p].body.archived = TRUE
            /\ proc[p].status # NoStatus =>
                  /\ proc[p].pc = "done" /\ proc[p].outcome = "ok"
                  /\ LastIssued(proc[p]) = ArchiveCall

(* the PATCH was refused with 403 and the operation returned normally *)
C23_Witness ==
    \E p \in Procs :
        /\ proc[p].op = ArchiveOp /\ proc[p].pc = "done"
        /\ proc[p].status = 403 /\ proc[p].failed = "archive"
        /\ proc[p].outcome = "ok"

(* C24 (as claimed): normalized_private_key either returns a key that      *)
(* contains the PEM header marker or fails with a configuration error; it  *)
(* never returns a key without the marker.                                 *)
KeyOp == "normalized_private_key"

C24_KeyHasPemHeaderOrFails ==
    \A p \in Procs :
        (proc[p].op = KeyOp /\ proc[p].pc = "done") =>
            IF proc[p].outcome = "ok"
            THEN Contains(proc[p].out, "-----BEGIN")
            ELSE proc[p].outcome = "ConfigurationError"

(* C25: _parse_repo_identifier gives (acme, widgets) for the URL of the    *)
(* repository with and without a trailing .git and for acme/widgets, the   *)
(* .git suffix never being part of the name; a reference with no or one    *)
(* non-empty path segment raises ValueError.                               *)
ParseOp == "_parse_repo_identifier"

WidgetsRefs ==
    { <<"https://", "github.com", "/", "acme", "/", "widgets", ".git">>,
      <<"https://", "github.com", "/", "acme", "/", "widgets">>,
      <<"http://", "github.com", "/", "acme", "/", "widgets", ".git", "/">>,
      <<"acme", "/", "widgets">>,
      <<" ", "acme", "/", "widgets", ".git", " ">> }

ShortRefs ==
    { <<"widgets">>, <<" ">>, <<>>, <<"/", "/">>,
      <<"https://", "github.com", "/", "acme">>,
      <<"https://", "github.com">> }

C25_SameRepoSamePair ==
    \A p \in Procs :
        (proc[p].op = ParseOp /\ proc[p].pc = "done") =>
            /\ proc[p].source \in WidgetsRefs =>
                  /\ proc[p].outcome = "ok"
                  /\ proc[p].parsed.owner = <<"acme">>
                  /\ proc[p].parsed.name = <<"widgets">>
            /\ proc[p].source \in ShortRefs => proc[p].outcome = "ValueError"
            /\ proc[p].outcome = "ok" => ~Contains(proc[p].parsed.name, ".git")

(* the URL with .git was parsed *)
C25_Witness ==
    \E p \in Procs :
        /\ proc[p].op = ParseOp /\ proc[p].pc = "done"
        /\ proc[p].source = <<"https://", "github.com", "/", "acme", "/", "widgets", ".git">>
        /\ proc[p].parsed = [ok |-> TRUE, owner |-> <<"acme">>, name |-> <<"widgets">>]

(* C26: the slug _slugify gives is never empty, holds only lower-case      *)
(* letters, digits and hyphens, neither starts nor ends with a hyphen and  *)
(* has no two hyphens in a row; its letters and digits are those of the    *)
(* value in their order, lower-cased, with one hyphen wherever the value   *)
(* has other characters between two of them; a value without letters and   *)
(* digits gives repo.                                                      *)
SlugOp == "_slugify"

IsLetterOrDigit(c) == c \in {"a", "B", "7"}

LettersAndDigits(str) == SelectSeq(str, LAMBDA c : c # "-")

(* positions of the value's letters and digits that follow another         *)
(* character which is neither, with a letter or digit somewhere before     *)
Gaps(value) ==
    {i \in 2..Len(value) :
        /\ IsLetterOrDigit(value[i]) /\ ~IsLetterOrDigit(value[i - 1])
        /\ \E j \in 1..(i - 1) : IsLetterOrDigit(value[j])}

C26_SlugIsClean ==
    \A p \in Procs :
        (proc[p].op = SlugOp /\ proc[p].pc = "done") =>
            LET value == proc[p].source
                slug == proc[p].out
                kept == SelectSeq(value, IsLetterOrDigit)
            IN /\ slug # <<>>
               /\ \A i \in 1..Len(slug) : slug[i] \in {"a", "b", "7", "-", "r", "e", "p", "o"}
               /\ slug[1] # "-" /\ slug[Len(slug)] # "-"
               /\ \A i \in 1..(Len(slug) - 1) : ~(slug[i] = "-" /\ slug[i + 1] = "-")
               /\ IF kept = <<>>
                  THEN slug = <<"r", "e", "p", "o">>
                  ELSE /\ LettersAndDigits(slug) =
                             [i \in 1..Len(kept) |-> IF kept[i] = "B" THEN "b" ELSE kept[i]]
                       /\ Len(slug) - Len(kept) = Cardinality(Gaps(value))

(* a value with a hyphen and a blank between its two letters *)
C26_Witness ==
    \E p \in Procs :
        /\ proc[p].op = SlugOp /\ proc[p].pc = "done"
        /\ proc[p].source = <<"B", "-", " ", "a">>
        /\ proc[p].out = <<"b", "-", "a">>

Phase(r) ==
    CASE r.pc \in {"mint_sent", "mint_replied"} /\ r.ret = "seed_lookup" -> 0
      [] r.pc = "seed_lookup_wait" -> 0
      [] r.pc = "seed_create_wait" -> 1
      [] r.pc = "git_wait" -> 2
      [] r.pc \in {"mint_sent", "mint_replied"} /\ r.ret = "seed_read" -> 3
      [] r.pc \in {"seed_read_wait", "seed_rename_wait", "seed_patch_wait"} -> 3
      [] r.pc = "seed_ref_wait" -> 4
      [] r.pc = "done" /\ r.outcome = "ok" -> 5
      [] OTHER -> 6

Issues(p, call) ==
    /\ Len(proc'[p].issued) = Len(proc[p].issued) + 1
    /\ LastIssued(proc'[p]) = call

C28_ProvisioningMovesForward ==
    [][\A p \in Procs :
          /\ (proc[p].op = SeedOp /\ proc'[p] # proc[p]) =>
                IF Phase(proc[p]) \in {5, 6}
                THEN proc'[p].pc = "idle"
                ELSE /\ proc'[p].op = SeedOp
                     /\ Phase(proc'[p]) \in {Phase(proc[p]), Phase(proc[p]) + 1, 6}
          /\ (proc[p].pc = "idle" /\ proc'[p].op = SeedOp) => Phase(proc'[p]) \in {0, 6}
          /\ proc'[p].op = SeedOp =>
                /\ Issues(p, "POST /orgs/repos") =>
                      /\ proc[p].pc = "seed_lookup_wait"
                      /\ proc'[p].status >= 200 /\ proc'[p].status <= 299
                /\ Issues(p, "git clone") =>
                      /\ proc[p].pc = "seed_create_wait"
                      /\ proc'[p].status \in {201, 202}
                /\ Issues(p, "PATCH /repos/seed") =>
                      /\ \E i \in 1..Len(proc[p].issued) : proc[p].issued[i] = "git push"
                      /\ proc'[p].failed \notin {"lookup", "create", "git"}
                /\ (proc'[p].pc = "done" /\ proc'[p].outcome = "ok" /\ proc[p].pc # "done") =>
                      /\ proc[p].pc = "seed_ref_wait"
                      /\ proc'[p].sha = "sha"]_vars

(* an invocation that went through the rename is Ready *)
C28_Witness ==
    \E p \in Procs :
        /\ proc[p].op = SeedOp /\ Phase(proc[p]) = 5
        /\ \E i \in 1..Len(proc[p].issued) : proc[p].issued[i] = "POST /branches/rename"

(* C29: the git commands of _clone_and_push are, in this order, clone with *)
(* the source remote named upstream and the source branch, remote add      *)
(* origin, then checkout of the source branch and branch -M to the         *)
(* destination branch if and only if the two branch names differ, then     *)
(* push --set-upstream origin with the destination branch.  A command is   *)
(* started only when the one before it exited with 0, and nothing follows  *)
(* the push.                                                               *)
GitPlan(r) ==
    <<"git clone", "git remote">>
    \o (IF r.default_branch # r.source_branch THEN <<"git checkout", "git branch">> ELSE <<>>)
    \o <<"git push">>

GitArgsWanted(r) ==
    CASE r.git = "clone" ->
            << <<"clone">>, <<"--origin">>, <<"upstream">>, <<"--branch">>, <<r.source_branch>> >>
      [] r.git = "remote" -> << <<"remote">>, <<"add">>, <<"origin">> >>
      [] r.git = "checkout" -> << <<"checkout">>, <<r.source_branch>> >>
      [] r.git = "branch" -> << <<"branch">>, <<"-M">>, <<r.default_branch>> >>
      [] r.git = "push" ->
            << <<"push">>, <<"--set-upstream">>, <<"origin">>, <<r.default_branch>> >>

C29_GitCommandsInOrder ==
    [][\A p \in Procs :
          proc'[p].op = MirrorOp =>
              LET r == proc'[p]
                  n == Len(r.issued)
              IN /\ n >= 1 /\ n <= Len(GitPlan(r))
                 /\ r.issued = SubSeq(GitPlan(r), 1, n)
                 /\ r.pc = "git_wait" =>
                       /\ r.issued[n] = "git " \o r.git
                       /\ SubSeq(GitArgs(r), 1, Len(GitArgsWanted(r))) = GitArgsWanted(r)
                 /\ (n > Len(proc[p].issued) /\ n > 1) =>
                       /\ proc[p].pc = "git_wait"
                       /\ r.status = 0
                 /\ (r.pc = "done" /\ r.outcome = "ok") =>
                       /\ r.issued = GitPlan(r)
                       /\ r.status = 0]_vars

(* a mirror whose branch names differ ran all five commands *)
C29_Witness ==
    \E p \in Procs :
        /\ proc[p].op = MirrorOp /\ proc[p].pc = "done" /\ proc[p].outcome = "ok"
        /\ proc[p].default_branch # proc[p].source_branch
        /\ proc[p].issued = <<"git clone", "git remote", "git checkout", "git branch", "git push">>

(* C30: when git push has exited with 0, ensure_seed_repository asks the   *)
(* token cache again: a cached token more than 60 seconds from its expiry  *)
(* is taken, otherwise a token is minted first.  The read of the new       *)
(* repository goes out with a token that is more than 60 seconds from its  *)
(* expiry at that moment, and the rename, the template PATCH and the SHA   *)
(* read carry that same token.  The rename is issued exactly when the      *)
(* default branch the read reported is a name other than the requested     *)
(* one; a rename answer other than 200 or 201 raises the broker error and  *)
(* neither the PATCH nor the SHA read is issued.                           *)
ReportedDefault(r) ==
    IF r.repo_data.default_branch = "none" THEN r.default_branch
    ELSE r.repo_data.default_branch

SecondsLeft(t) == minted[t].exp - now

HasIssued(r, call) == \E i \in 1..Len(r.issued) : r.issued[i] = call

C30_PromotionUsesRefetchedToken ==
    [][\A p \in Procs :
          (proc[p].op = SeedOp /\ proc'[p] # proc[p]) =>
             LET r == proc[p]
                 r2 == proc'[p]
             IN /\ (r.pc = "git_wait" /\ r.git = "push" /\ r2.pc # "done") =>
                      IF installation_token # NoToken
                         /\ now + 60 < installation_token_expires_at
                      THEN /\ Issues(p, "GET /repos/seed")
                           /\ r2.token = installation_token
                      ELSE /\ Issues(p, MintCall)
                           /\ r2.ret = "seed_read"
                /\ Issues(p, "GET /repos/seed") =>
                      /\ r2.token # NoToken
                      /\ SecondsLeft(r2.token) > 60
                      /\ \/ r.pc = "git_wait" /\ r.git = "push" /\ r2.status = 0
                         \/ r.pc = "mint_replied" /\ r.ret = "seed_read"
                               /\ r2.token = r.resp.token
                /\ (r.pc \in {"seed_read_wait", "seed_rename_wait", "seed_patch_wait"}) =>
                      r2.token = r.token
                /\ (r.pc = "seed_read_wait" /\ r2.pc # "done") =>
                      IF ReportedDefault(r2) # r2.default_branch
                      THEN Issues(p, "POST /branches/rename")
                      ELSE Issues(p, "PATCH /repos/seed")
                /\ Issues(p, "POST /branches/rename") => r.pc = "seed_read_wait"
                /\ r.pc = "seed_rename_wait" =>
                      IF r2.status \in {200, 201}
                      THEN Issues(p, "PATCH /repos/seed")
                      ELSE /\ r2.pc = "done"
                           /\ r2.outcome = "GitHubAppError"
                           /\ r2.issued = r.issued
                /\ (r2.pc = "done" /\ r2.failed = "rename") =>
                      /\ ~HasIssued(r2, "PATCH /repos/seed")
                      /\ ~HasIssued(r2, "GET /git/ref")]_vars

(* the cache had gone stale during the mirror, a second token was minted,  *)
(* the read reported another default branch and the rename was refused     *)
C30_Witness ==
    \E p \in Procs :
        /\ proc[p].op = SeedOp /\ proc[p].pc = "done"
        /\ MintCount(proc[p]) = 2
        /\ proc[p].outcome = "GitHubAppError"
        /\ LastIssued(proc[p]) = "POST /branches/rename"
        /\ proc[p].status = 404

(* C31: the cache of the installation token is either empty, with the      *)
(* expiry 0 it was constructed with, or holds the token and the expiry of  *)
(* one and the same answer to a default mint, whatever the interleaving of *)
(* default-token requests and scoped mints on the client.                  *)
C31_CachedPairFromOneMint ==
    \/ /\ installation_token = NoToken
       /\ installation_token_expires_at = 0
    \/ /\ installation_token \in 1..Len(minted)
       /\ minted[installation_token].exp = installation_token_expires_at
       /\ ~minted[installation_token].scoped

(* two mints were answered, a scoped one among them, a coroutine is still  *)
(* between its request and its answer, and the cache holds a pair          *)
C31_Witness ==
    /\ Len(minted) = 2
    /\ \E t \in 1..Len(minted) : minted[t].scoped
    /\ installation_token # NoToken
    /\ \E p \in Procs : proc[p].pc \in {"mint_sent", "mint_replied"}

(* C32: no step of any coroutine replaces the cached expiry of the default *)
(* token by an earlier one.                                                *)
C32_ExpiryNeverMovesBack ==
    [][installation_token_expires_at' >= installation_token_expires_at]_vars

(* C33: the status of an invitation only moves sent -> started ->          *)
(* submitted or sent -> expired: an invitation that was started or         *)
(* submitted never becomes expired, and a submitted one keeps its status.  *)
C33_StatusOnlyMovesForward ==
    [][\/ db'.invitation.status = db.invitation.status
       \/ <<db.invitation.status, db'.invitation.status>> \in
              {<<"sent", "started">>, <<"started", "submitted">>, <<"sent", "expired">>}]_vars

StartOp == "start_assessment"

SubmitOp == "submit_assessment"

(* handler p takes a step *)
Steps(p) == txn'[p] # txn[p]

AllRevoked(d) == \A i \in 1..Len(d.access_tokens) : d.access_tokens[i].revoked

InstallOp == "start_github_installation"

CompleteOp == "complete_github_installation"

StatesOf(d, org_id) == {s \in d.states : s.org = org_id}

StateTokens(d) == {s.token : s \in d.states}

C36_StateIsSingleUse ==
    [][\A p \in Procs :
          /\ (Steps(p) /\ txn[p].pc = "idle" /\ txn'[p].op = CompleteOp) =>
                /\ db' = db
                /\ txn'[p].state \notin StateTokens(db) =>
                      txn'[p].pc = "done" /\ txn'[p].code = 400
                /\ (\E s \in db.states : s.token = txn'[p].state /\ s.expires_at < now) =>
                      txn'[p].pc = "expired_commit"
          /\ (Steps(p) /\ txn[p].pc = "expired_commit") =>
                /\ txn'[p].code = 410
                /\ txn[p].state \notin StateTokens(db')
          /\ (Steps(p) /\ txn[p].pc = "complete_commit") =>
                /\ txn'[p].code = 200
                /\ txn[p].state \notin StateTokens(db')
          /\ (Steps(p) /\ txn[p].pc = "fetch_wait") =>
                /\ db'.states = db.states
                /\ txn'[p].pc = "done" => txn'[p].code \in {400, 502}
          /\ StateTokens(db') \cap (1..db.state_tokens) \subseteq StateTokens(db)]_vars
====
